---------------------------- MODULE Spec2Model ----------------------------
(***************************************************************************)
(* State-machine model of the submarine simulation (src/src/main.rs).      *)
(*                                                                         *)
(* Numbers are fixed point, so that every rate of the program is an        *)
(* integer per time quantum:                                               *)
(*   time        1 unit = 1/4 s     (delta_time is a count of quarters)    *)
(*   fill_level, compressed_air, electricity                               *)
(*               1 unit = 1/40      (1.0 = 40, 100.0 = 4000)               *)
(*   velocity    1 unit = 1/32 m/s  (acceleration * 1/4 s is integral)     *)
(*   position    1 unit = 1/128 m   (velocity unit * time unit)            *)
(*   angle       1 unit = 1/16 rad, with PI taken as 50 units (3.125)      *)
(*   sin, cos    1 unit = 1/1000                                           *)
(*   panel       1 unit = 1/128 px                                         *)
(***************************************************************************)
EXTENDS Integers, Sequences, FiniteSets, TLC

---------------------------------------------------------------------------
(* Program constants (main.rs:7-20 and the literals of the handlers),      *)
(* expressed in the units above.                                           *)

FILL_FULL == 40
AIR_FULL == 40
ELEC_FULL == 4000
BALLAST_FILL_RATE == 3
BALLAST_DRAIN_RATE == 4
COMPRESSED_AIR_RATE == 2
COMPRESSOR_POWER_DRAIN == 5
POWER_RECHARGE_RATE == 1
BASE_BUOYANCY_FORCE == 40
BALLAST_BUOYANCY_FORCE == 120
SUB_SPEED == 320
TURN_SPEED == 6
CAMERA_ROTATION_SPEED == 8
PITCH_LIMIT == 16
CAMERA_DISTANCE == 3200
SONAR_RANGE == 6400
SONAR_CENTER_X == 12800
SONAR_CENTER_Y == 12800
SONAR_RADIUS == 9600
PI == 50
TWO_PI == 100
FRAC_PI_2 == 25
TRIG_ONE == 1000
\* oxygen and health: 1 unit = 1/200 of a percent point
OXYGEN_FULL == 20000
HEALTH_FULL == 20000
OXYGEN_GAIN == 250
OXYGEN_LOSS == 1
HEALTH_LOSS == 250
FISH_OXYGEN == 4000
FISH_SCORE == 10
FISH_COLLECTION_DISTANCE == 256
SWEEP_SPEED == 4
NUM_BLIPS == 20
NUM_SEGMENTS == 20
BLIP_HALF == 384
SEGMENT_HALF == 128
YAW_LERP_SPEED == 2
CAMERA_HEIGHT == 640
BUBBLE_INTERVAL == 8
BUBBLE_DROP == 90
BUBBLE_LIFE == 100
MAX_DISTANCE == 51200
MIN_FISH_Y == -3200
RETURN_SPEED == 96
SWAY == 96

---------------------------------------------------------------------------
(* Bounds of the model.                                                    *)

\* frames of a run of the frame specification
MaxFrames == 4
\* ticks of a run of the controller-only specification
MaxTicks == 4

VARIABLES
    ballast,     \* BallastState resource
    sub,         \* the Submarine entity: Transform and Velocity
    camera,      \* CameraState resource
    fish,        \* the Fish entities: Transform
    detections,  \* SonarDetections.fish_positions
    elapsed,     \* WaveTime.elapsed
    frame,       \* number of frames begun so far
    pc,          \* position in the Update schedule of the current frame
    dt,          \* Time::delta_secs() of the current frame
    keys,        \* ButtonInput<KeyCode> of the current frame
    angle_in,    \* argument of the last normalize_angle call
    angle_out,   \* its result
    obs,         \* history of the running scenarios (not program state)
    game,        \* GameState resource
    sweep_angle, \* SonarState.sweep_angle
    sweep_line,  \* the SonarSweepLine nodes: left and top of each
    blips,       \* the SonarBlip nodes: left, top and whether shown
    ui,          \* what ui_system last wrote into the Text
    bubbles,     \* bubble_spawner_system's timer and the Bubble entities
    camera_transform, \* Transform of the CameraFollow entity
    light        \* DirectionalLight and AmbientLight

\* the state written only by the systems of the second half of the chain
rest == <<game, sweep_angle, sweep_line, blips, ui, bubbles,
          camera_transform, light>>

vars == <<ballast, sub, camera, fish, detections, elapsed, frame, pc, dt, keys,
          angle_in, angle_out, obs, game, sweep_angle, sweep_line, blips, ui,
          bubbles, camera_transform, light>>

---------------------------------------------------------------------------
(* Arithmetic helpers: f32::min, f32::max, f32::clamp, the % of Rust       *)

Min(a, b) == IF a <= b THEN a ELSE b

Max(a, b) == IF a >= b THEN a ELSE b

Clamp(v, lo, hi) == Max(lo, Min(v, hi))

Abs(a) == IF a < 0 THEN -a ELSE a

\* a / b rounded toward zero (fixed-point products are truncated)
QuotT(a, b) == IF a >= 0 THEN a \div b ELSE -((-a) \div b)

\* Rust's a % b on floats is fmod: the remainder has the sign of a.
Rem(a, b) == IF a >= 0 THEN a % b ELSE -((-a) % b)

---------------------------------------------------------------------------
(* Ballast & power controller: ballast_control_system, block by block.     *)

DefaultBallastState ==
    [fill_level     |-> 0,
     vents_open     |-> FALSE,
     air_valve_open |-> FALSE,
     compressed_air |-> AIR_FULL,
     compressor_on  |-> FALSE,
     electricity    |-> ELEC_FULL]

\* depth read by ballast_control_system and oxygen_system
Depth_lastKnown(s) == -s.y

Depth(s) == IF s.exists THEN -s.y ELSE 0

toggle_vents_flipOnly(b, ks) ==
    IF "Q" \in ks THEN [b EXCEPT !.vents_open = ~b.vents_open] ELSE b

toggle_vents(b, ks) ==
    IF "Q" \in ks
    THEN LET v == ~b.vents_open
         IN  [b EXCEPT !.vents_open = v,
                       !.air_valve_open = IF v THEN FALSE ELSE @]
    ELSE b

toggle_air_valve(b, ks) ==
    IF "E" \in ks
    THEN LET a == ~b.air_valve_open
         IN  [b EXCEPT !.air_valve_open = a,
                       !.vents_open = IF a THEN FALSE ELSE @]
    ELSE b

toggle_compressor(b, ks, depth) ==
    IF "R" \in ks
    THEN IF depth <= 0
         THEN [b EXCEPT !.compressor_on = ~b.compressor_on]
         ELSE [b EXCEPT !.compressor_on = FALSE]
    ELSE b

compressor_step_noCap(b, delta_time, depth) ==
    IF b.compressor_on /\ b.electricity > 0 /\ depth <= 0
    THEN [b EXCEPT
            !.compressed_air = b.compressed_air + COMPRESSED_AIR_RATE * delta_time,
            !.electricity = b.electricity - COMPRESSOR_POWER_DRAIN * delta_time]
    ELSE IF depth > 0
         THEN [b EXCEPT !.compressor_on = FALSE]
         ELSE b

compressor_step_noForceOff(b, delta_time, depth) ==
    IF b.compressor_on /\ b.electricity > 0 /\ depth <= 0
    THEN [b EXCEPT
            !.compressed_air =
                Min(b.compressed_air + COMPRESSED_AIR_RATE * delta_time, AIR_FULL),
            !.electricity =
                Max(b.electricity - COMPRESSOR_POWER_DRAIN * delta_time, 0)]
    ELSE b

compressor_step_halfRate(b, delta_time, depth) ==
    IF b.compressor_on /\ b.electricity > 0 /\ depth <= 0
    THEN [b EXCEPT
            !.compressed_air =
                Min(b.compressed_air + (COMPRESSED_AIR_RATE * delta_time) \div 2,
                    AIR_FULL),
            !.electricity =
                Max(b.electricity - COMPRESSOR_POWER_DRAIN * delta_time, 0)]
    ELSE IF depth > 0
         THEN [b EXCEPT !.compressor_on = FALSE]
         ELSE b

compressor_step_anyDepth(b, delta_time, depth) ==
    IF b.compressor_on /\ b.electricity > 0
    THEN [b EXCEPT
            !.compressed_air =
                Min(b.compressed_air + COMPRESSED_AIR_RATE * delta_time, AIR_FULL),
            !.electricity =
                Max(b.electricity - COMPRESSOR_POWER_DRAIN * delta_time, 0)]
    ELSE IF depth > 0
         THEN [b EXCEPT !.compressor_on = FALSE]
         ELSE b

compressor_step_offWhenFlat(b, delta_time, depth) ==
    IF b.compressor_on /\ b.electricity > 0 /\ depth <= 0
    THEN [b EXCEPT
            !.compressed_air =
                Min(b.compressed_air + COMPRESSED_AIR_RATE * delta_time, AIR_FULL),
            !.electricity =
                Max(b.electricity - COMPRESSOR_POWER_DRAIN * delta_time, 0)]
    ELSE [b EXCEPT !.compressor_on = FALSE]

compressor_step(b, delta_time, depth) ==
    IF b.compressor_on /\ b.electricity > 0 /\ depth <= 0
    THEN [b EXCEPT
            !.compressed_air =
                Min(b.compressed_air + COMPRESSED_AIR_RATE * delta_time, AIR_FULL),
            !.electricity =
                Max(b.electricity - COMPRESSOR_POWER_DRAIN * delta_time, 0)]
    ELSE IF depth > 0
         THEN [b EXCEPT !.compressor_on = FALSE]
         ELSE b

recharge_step_always(b, delta_time) ==
    [b EXCEPT !.electricity =
        Min(b.electricity + POWER_RECHARGE_RATE * delta_time, ELEC_FULL)]

recharge_step(b, delta_time) ==
    IF ~b.compressor_on
    THEN [b EXCEPT !.electricity =
            Min(b.electricity + POWER_RECHARGE_RATE * delta_time, ELEC_FULL)]
    ELSE b

transfer_step_drainRate(b, delta_time) ==
    IF b.vents_open
    THEN [b EXCEPT !.fill_level =
            Min(b.fill_level + BALLAST_DRAIN_RATE * delta_time, FILL_FULL)]
    ELSE IF b.air_valve_open /\ b.compressed_air > 0
         THEN LET f == Max(b.fill_level - BALLAST_DRAIN_RATE * delta_time, 0)
                  a == Max(b.compressed_air
                             - (BALLAST_DRAIN_RATE * delta_time) \div 2, 0)
              IN  [b EXCEPT !.fill_level = f,
                            !.compressed_air = a,
                            !.air_valve_open = IF f <= 0 THEN FALSE ELSE @]
         ELSE b

transfer_step_ventsUseAir(b, delta_time) ==
    IF b.vents_open
    THEN [b EXCEPT
            !.fill_level =
                Min(b.fill_level + BALLAST_FILL_RATE * delta_time, FILL_FULL),
            !.compressed_air =
                Max(b.compressed_air - (BALLAST_FILL_RATE * delta_time) \div 2, 0)]
    ELSE IF b.air_valve_open /\ b.compressed_air > 0
         THEN LET f == Max(b.fill_level - BALLAST_DRAIN_RATE * delta_time, 0)
                  a == Max(b.compressed_air
                             - (BALLAST_DRAIN_RATE * delta_time) \div 2, 0)
              IN  [b EXCEPT !.fill_level = f,
                            !.compressed_air = a,
                            !.air_valve_open = IF f <= 0 THEN FALSE ELSE @]
         ELSE b

transfer_step_fullAirRate(b, delta_time) ==
    IF b.vents_open
    THEN [b EXCEPT !.fill_level =
            Min(b.fill_level + BALLAST_FILL_RATE * delta_time, FILL_FULL)]
    ELSE IF b.air_valve_open /\ b.compressed_air > 0
         THEN LET f == Max(b.fill_level - BALLAST_DRAIN_RATE * delta_time, 0)
                  a == Max(b.compressed_air - BALLAST_DRAIN_RATE * delta_time, 0)
              IN  [b EXCEPT !.fill_level = f,
                            !.compressed_air = a,
                            !.air_valve_open = IF f <= 0 THEN FALSE ELSE @]
         ELSE b

transfer_step_noAutoClose(b, delta_time) ==
    IF b.vents_open
    THEN [b EXCEPT !.fill_level =
            Min(b.fill_level + BALLAST_FILL_RATE * delta_time, FILL_FULL)]
    ELSE IF b.air_valve_open /\ b.compressed_air > 0
         THEN LET f == Max(b.fill_level - BALLAST_DRAIN_RATE * delta_time, 0)
                  a == Max(b.compressed_air
                             - (BALLAST_DRAIN_RATE * delta_time) \div 2, 0)
              IN  [b EXCEPT !.fill_level = f, !.compressed_air = a]
         ELSE b

transfer_step_airKeepsFlowing(b, delta_time) ==
    IF b.vents_open
    THEN [b EXCEPT !.fill_level =
            Min(b.fill_level + BALLAST_FILL_RATE * delta_time, FILL_FULL)]
    ELSE IF b.air_valve_open /\ b.compressed_air > 0
         THEN LET f == Max(b.fill_level - BALLAST_DRAIN_RATE * delta_time, 0)
              IN  [b EXCEPT !.fill_level = f,
                            !.air_valve_open = IF f <= 0 THEN FALSE ELSE @]
         ELSE b

transfer_step(b, delta_time) ==
    IF b.vents_open
    THEN [b EXCEPT !.fill_level =
            Min(b.fill_level + BALLAST_FILL_RATE * delta_time, FILL_FULL)]
    ELSE IF b.air_valve_open /\ b.compressed_air > 0
         THEN LET f == Max(b.fill_level - BALLAST_DRAIN_RATE * delta_time, 0)
                  \* BALLAST_DRAIN_RATE * delta_time * 0.5
                  a == Max(b.compressed_air
                             - (BALLAST_DRAIN_RATE * delta_time) \div 2, 0)
              IN  [b EXCEPT !.fill_level = f,
                            !.compressed_air = a,
                            !.air_valve_open = IF f <= 0 THEN FALSE ELSE @]
         ELSE b

apply_toggles_valveFirst(b, ks, depth) ==
    toggle_compressor(toggle_vents(toggle_air_valve(b, ks), ks), ks, depth)

\* the three toggle blocks, in source order
apply_toggles(b, ks, depth) ==
    toggle_compressor(toggle_air_valve(toggle_vents(b, ks), ks), ks, depth)

\* the whole handler as a function of the resource, the input and the depth
ballast_control(b, ks, delta_time, depth) ==
    transfer_step(
        recharge_step(
            compressor_step(apply_toggles(b, ks, depth), delta_time, depth),
            delta_time),
        delta_time)


---------------------------------------------------------------------------
(* Geometry utilities.                                                     *)

\* sin of k/100 of a turn, in thousandths (f32::sin)
SinTable ==
    << 0, 63, 125, 187, 249, 309, 368, 426, 482, 536,
       588, 637, 685, 729, 771, 809, 844, 876, 905, 930,
       951, 969, 982, 992, 998, 1000, 998, 992, 982, 969,
       951, 930, 905, 876, 844, 809, 771, 729, 685, 637,
       588, 536, 482, 426, 368, 309, 249, 187, 125, 63,
       0, -63, -125, -187, -249, -309, -368, -426, -482, -536,
       -588, -637, -685, -729, -771, -809, -844, -876, -905, -930,
       -951, -969, -982, -992, -998, -1000, -998, -992, -982, -969,
       -951, -930, -905, -876, -844, -809, -771, -729, -685, -637,
       -588, -536, -482, -426, -368, -309, -249, -187, -125, -63 >>

Sin(a) == SinTable[(a % TWO_PI) + 1]

Cos(a) == Sin(a + FRAC_PI_2)

\* (angle + 2.0 * PI) % (2.0 * PI), with Rust's remainder
normalize_angle(angle) == Rem(angle + TWO_PI, TWO_PI)

\* f32::atan2(y, x): the table angle of the quadrant of (x, y) nearest to
\* the direction of (x, y); atan2(0, 0) = 0
Atan2(y, x) ==
    IF x = 0 /\ y = 0 THEN 0
    ELSE LET quadrant == IF y >= 0
                         THEN IF x >= 0 THEN 0 .. FRAC_PI_2 ELSE FRAC_PI_2 .. PI
                         ELSE IF x >= 0 THEN (-FRAC_PI_2) .. 0 ELSE (-PI) .. (-FRAC_PI_2)
             proj(a) == x * Cos(a) + y * Sin(a)
             best == {a \in quadrant : \A c \in quadrant : proj(a) >= proj(c)}
         IN  CHOOSE a \in best : \A c \in best : Abs(a) <= Abs(c)

RECURSIVE SqrtSearch(_, _, _)
SqrtSearch(n, lo, hi) ==
    IF lo >= hi THEN lo
    ELSE LET mid == (lo + hi + 1) \div 2
         IN  IF mid * mid <= n THEN SqrtSearch(n, mid, hi)
                               ELSE SqrtSearch(n, lo, mid - 1)

\* f32::sqrt on the fixed-point grid (rounded down)
Sqrt(n) == SqrtSearch(n, 0, 46340)

\* Vec3::length
Length(v) == Sqrt(v[1] * v[1] + v[2] * v[2] + v[3] * v[3])

\* Quat::from_rotation_y(yaw) * v
RotateY(yaw, v) ==
    << QuotT(v[1] * Cos(yaw) + v[3] * Sin(yaw), TRIG_ONE),
       v[2],
       QuotT(v[3] * Cos(yaw) - v[1] * Sin(yaw), TRIG_ONE) >>

\* a yaw-only rotation is kept as its angle in (-PI, PI]
WrapYaw(a) == ((a + PI - 1) % TWO_PI) - (PI - 1)

calculate_fish_angle_noQuarter(local_rel) ==
    normalize_angle(Atan2(-local_rel[1], -local_rel[3]))

calculate_fish_angle(local_rel) ==
    normalize_angle(Atan2(-local_rel[1], -local_rel[3]) + FRAC_PI_2)

calculate_sonar_position(fish_angle, distance) ==
    LET scaled_dist == QuotT(distance * SONAR_RADIUS, SONAR_RANGE)
    IN  << SONAR_CENTER_X + QuotT(scaled_dist * Cos(fish_angle), TRIG_ONE),
           SONAR_CENTER_Y - QuotT(scaled_dist * Sin(fish_angle), TRIG_ONE) >>


---------------------------------------------------------------------------
(* Vehicle kinematics: submarine_movement, block by block, and the step    *)
(* of the physics plugin that integrates Velocity into Transform.          *)

DefaultSub ==
    [exists |-> TRUE, x |-> 0, y |-> 0, z |-> 0, yaw |-> 0,
     vx |-> 0, vy |-> 0, vz |-> 0]

DefaultCameraState ==
    [distance |-> CAMERA_DISTANCE, yaw |-> 0, pitch |-> 0, target_yaw |-> 0]

move_direction(ks) ==
    (IF "W" \in ks THEN 1 ELSE 0) - (IF "S" \in ks THEN 1 ELSE 0)

\* KeyA / KeyD: transform.rotate(Quat::from_rotation_y(+-turn_speed * dt))
turn(s, ks, delta_time) ==
    LET a == IF "A" \in ks THEN TURN_SPEED * delta_time ELSE 0
        d == IF "D" \in ks THEN TURN_SPEED * delta_time ELSE 0
    IN  [s EXCEPT !.yaw = WrapYaw(s.yaw + a - d)]

rotate_camera_noClamp(c, ks, delta_time) ==
    LET step == CAMERA_ROTATION_SPEED * delta_time
        y1 == IF "ArrowLeft" \in ks THEN c.yaw - step ELSE c.yaw
        y2 == IF "ArrowRight" \in ks THEN y1 + step ELSE y1
        p1 == IF "ArrowUp" \in ks THEN c.pitch + step ELSE c.pitch
        p2 == IF "ArrowDown" \in ks THEN p1 - step ELSE p1
    IN  [c EXCEPT !.yaw = y2, !.pitch = p2]

\* the arrow keys
rotate_camera(c, ks, delta_time) ==
    LET step == CAMERA_ROTATION_SPEED * delta_time
        y1 == IF "ArrowLeft" \in ks THEN c.yaw - step ELSE c.yaw
        y2 == IF "ArrowRight" \in ks THEN y1 + step ELSE y1
        p1 == IF "ArrowUp" \in ks
              THEN Clamp(c.pitch + step, -PITCH_LIMIT, PITCH_LIMIT) ELSE c.pitch
        p2 == IF "ArrowDown" \in ks
              THEN Clamp(p1 - step, -PITCH_LIMIT, PITCH_LIMIT) ELSE p1
    IN  [c EXCEPT !.yaw = y2, !.pitch = p2]

\* local_velocity, then "velocity.linvel = local_velocity" or the drag
thrust_or_drag(s, ks) ==
    LET m == move_direction(ks)
        local_velocity ==
            IF Abs(m) > 0
            THEN RotateY(s.yaw, <<0, 0, -(m * SUB_SPEED)>>)
            ELSE <<0, 0, 0>>
    IN  IF Length(local_velocity) > 0
        THEN [s EXCEPT !.vx = local_velocity[1],
                       !.vy = local_velocity[2],
                       !.vz = local_velocity[3]]
        ELSE [s EXCEPT !.vx = QuotT(s.vx * 9, 10),
                       !.vy = QuotT(s.vy * 9, 10),
                       !.vz = QuotT(s.vz * 9, 10)]

buoyancy_aboveSurface(s, b, delta_time) ==
    LET upward_buoyancy == BASE_BUOYANCY_FORCE
        ballast_weight ==
            QuotT(b.fill_level * BALLAST_BUOYANCY_FORCE, FILL_FULL)
        net_buoyancy_force == upward_buoyancy - ballast_weight
    IN  [s EXCEPT !.vy = s.vy + net_buoyancy_force * delta_time]

\* "if transform.translation.y <= 0.0 { ... }"
buoyancy(s, b, delta_time) ==
    IF s.y <= 0
    THEN LET upward_buoyancy == BASE_BUOYANCY_FORCE
             ballast_weight ==
                 QuotT(b.fill_level * BALLAST_BUOYANCY_FORCE, FILL_FULL)
             net_buoyancy_force == upward_buoyancy - ballast_weight
         IN  [s EXCEPT !.vy = s.vy + net_buoyancy_force * delta_time]
    ELSE s

surface_clamp_keepVelocity(s) ==
    IF s.y > 0 THEN [s EXCEPT !.y = 0] ELSE s

\* "if transform.translation.y > 0.0 { ... }"
surface_clamp(s) ==
    IF s.y > 0
    THEN [s EXCEPT !.y = 0, !.vy = IF s.vy > 0 THEN 0 ELSE @]
    ELSE s

\* the Submarine entity after submarine_movement
movement_sub(s, b, ks, delta_time) ==
    IF s.exists
    THEN surface_clamp(buoyancy(thrust_or_drag(turn(s, ks, delta_time), ks),
                                b, delta_time))
    ELSE s

\* CameraState after submarine_movement
movement_camera(s, c, ks, delta_time) ==
    IF s.exists THEN rotate_camera(c, ks, delta_time) ELSE c

\* RapierPhysicsPlugin, after the Update schedule: a dynamic body with
\* GravityScale(0.0) moves by its Velocity
physics_step(s, delta_time) ==
    IF s.exists
    THEN [s EXCEPT !.x = s.x + s.vx * delta_time,
                   !.y = s.y + s.vy * delta_time,
                   !.z = s.z + s.vz * delta_time]
    ELSE s

---------------------------------------------------------------------------
(* Directional scan: sonar_detection_system.                               *)

\* fish entities modelled (FISH_COUNT in the program)
NFish == 2

FishIds == 1 .. NFish

\* fish_transform.translation - submarine_transform.translation
RelOf(s, f) == <<f.x - s.x, f.y - s.y, f.z - s.z>>

\* the record pushed for one fish: blip_x, blip_y, fish_angle, and whether
\* the three are NaN, which they are when the fish's translation is
RecordOf(s, f) ==
    LET rel == RelOf(s, f)
        dist == Length(rel)
        local_rel == RotateY(-s.yaw, rel)
        fish_angle == calculate_fish_angle(local_rel)
        blip == calculate_sonar_position(fish_angle, dist)
    IN  IF f.pos_nan
        THEN <<0, 0, 0, TRUE>>
        ELSE <<blip[1], blip[2], fish_angle, FALSE>>

\* rel.length_squared()
LengthSquared(v) == v[1] * v[1] + v[2] * v[2] + v[3] * v[3]

out_of_range_strict(s, f) ==
    /\ ~f.pos_nan
    /\ LengthSquared(RelOf(s, f)) >= SONAR_RANGE * SONAR_RANGE

\* "if dist > SONAR_RANGE { continue; }": Length rounds down, so the
\* comparison is made on the squares; with a NaN translation dist is NaN
\* and the comparison false
out_of_range(s, f) ==
    /\ ~f.pos_nan
    /\ LengthSquared(RelOf(s, f)) > SONAR_RANGE * SONAR_RANGE

\* the loop over fish_query, entities i .. NFish
RECURSIVE detect_from(_, _, _)
detect_from(s, fs, i) ==
    IF i > NFish THEN <<>>
    ELSE IF ~fs[i].alive \/ out_of_range(s, fs[i])
         THEN detect_from(s, fs, i + 1)
         ELSE <<RecordOf(s, fs[i])>> \o detect_from(s, fs, i + 1)

sonar_detection_merge(s, fs, det) ==
    IF s.exists THEN det \o detect_from(s, fs, 1) ELSE det

\* SonarDetections.fish_positions after sonar_detection_system
sonar_detection(s, fs, det) ==
    IF s.exists THEN detect_from(s, fs, 1) ELSE det

---------------------------------------------------------------------------
(* Game state: oxygen_system and collect_fish.                             *)

DefaultGameState ==
    [score |-> 0, health |-> HEALTH_FULL, oxygen |-> OXYGEN_FULL]

oxygen_system_noFloor(g, s, delta_time) ==
    LET depth == Depth(s)
        g1 == IF depth <= 0
              THEN [g EXCEPT !.oxygen =
                       Min(g.oxygen + delta_time * OXYGEN_GAIN, OXYGEN_FULL)]
              ELSE [g EXCEPT !.oxygen = g.oxygen - delta_time * OXYGEN_LOSS]
    IN  IF g1.oxygen <= 0
        THEN [g1 EXCEPT !.health = Max(g1.health - delta_time * HEALTH_LOSS, 0)]
        ELSE g1

oxygen_system(g, s, delta_time) ==
    LET depth == Depth(s)
        g1 == IF depth <= 0
              THEN [g EXCEPT !.oxygen =
                       Min(g.oxygen + delta_time * OXYGEN_GAIN, OXYGEN_FULL)]
              ELSE [g EXCEPT !.oxygen =
                       Max(g.oxygen - delta_time * OXYGEN_LOSS, 0)]
    IN  IF g1.oxygen <= 0
        THEN [g1 EXCEPT !.health = Max(g1.health - delta_time * HEALTH_LOSS, 0)]
        ELSE g1

\* "distance < FISH_COLLECTION_DISTANCE", on the squares
collectable(s, f) ==
    f.alive /\ LengthSquared(RelOf(s, f))
                  < FISH_COLLECTION_DISTANCE * FISH_COLLECTION_DISTANCE

collect_fish_entities_keep(s, fs) == fs

\* commands.entity(fish_entity).despawn() for every fish in reach
collect_fish_entities(s, fs) ==
    IF s.exists
    THEN [i \in FishIds |->
            IF collectable(s, fs[i]) THEN [fs[i] EXCEPT !.alive = FALSE]
                                     ELSE fs[i]]
    ELSE fs

RECURSIVE collect_from(_, _, _, _)
collect_from(g, s, fs, i) ==
    IF i > NFish THEN g
    ELSE IF collectable(s, fs[i])
         THEN collect_from(
                  [g EXCEPT !.score = g.score + FISH_SCORE,
                            !.oxygen = Min(g.oxygen + FISH_OXYGEN, OXYGEN_FULL)],
                  s, fs, i + 1)
         ELSE collect_from(g, s, fs, i + 1)

\* GameState after collect_fish
collect_fish_game(g, s, fs) ==
    IF s.exists THEN collect_from(g, s, fs, 1) ELSE g

---------------------------------------------------------------------------
(* The sonar panel: sweep, sweep line, blips.                              *)

sonar_sweep_up(a, delta_time) == a + delta_time * SWEEP_SPEED

\* sonar_state.sweep_angle -= time.delta_secs() * SWEEP_SPEED
sonar_sweep(a, delta_time) == a - delta_time * SWEEP_SPEED

\* the SonarSweepLine nodes as setup spawns them
DefaultSweepLine ==
    [i \in 1 .. NUM_SEGMENTS |->
        [left |-> SONAR_CENTER_X, top |-> SONAR_CENTER_Y]]

\* yaw read by sonar_sweep_update_system and ui_system
YawOf(s) == IF s.exists THEN s.yaw ELSE 0

sonar_sweep_update(a, s) ==
    [i \in 1 .. NUM_SEGMENTS |->
        LET segment_distance == i * (SONAR_RADIUS \div NUM_SEGMENTS)
            sweep == a + YawOf(s)
            segment_x == SONAR_CENTER_X
                           + QuotT(segment_distance * Cos(sweep), TRIG_ONE)
            segment_y == SONAR_CENTER_Y
                           - QuotT(segment_distance * Sin(sweep), TRIG_ONE)
        IN  [left |-> segment_x - SEGMENT_HALF, top |-> segment_y - SEGMENT_HALF]]

\* the SonarBlip nodes as setup spawns them: transparent
DefaultBlips ==
    [i \in 1 .. NUM_BLIPS |-> [left |-> 0, top |-> 0, shown |-> FALSE]]

sonar_blip_keepShown(bl, det) ==
    [i \in 1 .. NUM_BLIPS |->
        IF i <= Len(det)
        THEN [left |-> det[i][1] - BLIP_HALF, top |-> det[i][2] - BLIP_HALF,
              shown |-> TRUE]
        ELSE bl[i]]

\* slot i of the enumeration is index i - 1 of the program
sonar_blip(bl, det) ==
    [i \in 1 .. NUM_BLIPS |->
        IF i <= Len(det)
        THEN [left |-> det[i][1] - BLIP_HALF, top |-> det[i][2] - BLIP_HALF,
              shown |-> TRUE]
        ELSE [bl[i] EXCEPT !.shown = FALSE]]

---------------------------------------------------------------------------
(* The text panel: ui_system.  Numbers are kept as the tenths that         *)
(* "{:.1}" prints.                                                         *)

\* n / d rounded to the nearest integer, ties to even (d > 0)
RoundHalfEven(n, d) ==
    LET q == n \div d
        r == n % d
    IN  IF 2 * r < d THEN q
        ELSE IF 2 * r > d THEN q + 1
        ELSE IF q % 2 = 0 THEN q ELSE q + 1

\* f32::to_degrees, in tenths: 50 units are 180 degrees
to_degrees(a) == 36 * a

LiveFish(fs) == {i \in FishIds : fs[i].alive}

\* the Text after setup
DefaultUi ==
    [score |-> 0, health |-> 1000, oxygen |-> 1000, ballast |-> 0,
     compressed_air |-> 1000, electricity |-> 1000,
     vents |-> FALSE, air_valve |-> FALSE, compressor |-> FALSE,
     speed |-> 0, depth |-> 0, pitch |-> 0, yaw |-> 0, roll |-> 0,
     sweep |-> 0, fish_angle |-> 0, detected |-> FALSE, detected_angle |-> 0]

ui_system(g, s, fs, a, det, b) ==
    LET speed == IF s.exists THEN Length(<<s.vx, s.vy, s.vz>>) ELSE 0
        depth == IF s.exists THEN -s.y ELSE 0
        yaw == YawOf(s)
        fish_angle ==
            IF s.exists /\ Cardinality(LiveFish(fs)) = 1
            THEN LET f == fs[CHOOSE i \in LiveFish(fs) : TRUE]
                 IN  calculate_fish_angle(RotateY(-s.yaw, RelOf(s, f)))
            ELSE 0
    IN  [score |-> g.score,
         health |-> RoundHalfEven(g.health, 20),
         oxygen |-> RoundHalfEven(g.oxygen, 20),
         ballast |-> 25 * b.fill_level,
         compressed_air |-> 25 * b.compressed_air,
         electricity |-> RoundHalfEven(b.electricity, 4),
         vents |-> b.vents_open,
         air_valve |-> b.air_valve_open,
         compressor |-> b.compressor_on,
         speed |-> RoundHalfEven(speed * 10, 32),
         depth |-> RoundHalfEven(depth * 10, 128),
         pitch |-> 0,
         yaw |-> to_degrees(yaw),
         roll |-> 0,
         sweep |-> to_degrees(a),
         fish_angle |-> to_degrees(fish_angle),
         detected |-> Len(det) > 0,
         detected_angle |-> IF Len(det) > 0 THEN to_degrees(det[1][3]) ELSE 0]

---------------------------------------------------------------------------
(* Observer tracking: camera_follow, and depth_lighting_system, which      *)
(* reads the observer's Transform.                                         *)

\* Transform::from_xyz(0.0, 8.0, 25.0)
DefaultCameraTransform == [x |-> 0, y |-> 1024, z |-> 3200]

\* (target_yaw - yaw + PI) % (2.0 * PI) - PI, with Rust's remainder
angle_diff(yaw, target_yaw) ==
    Rem(target_yaw - yaw + PI, TWO_PI) - PI

\* CameraState after camera_follow
camera_follow(c, s, delta_time) ==
    IF s.exists
    THEN LET submarine_yaw == s.yaw
             d == angle_diff(c.yaw, submarine_yaw)
         IN  [c EXCEPT !.target_yaw = submarine_yaw,
                       !.yaw = c.yaw + QuotT(d * YAW_LERP_SPEED * delta_time, 4)]
    ELSE c

\* the observer's translation after camera_follow (its rotation, set by
\* look_at, is not kept)
camera_follow_transform(ct, c, s, delta_time) ==
    IF s.exists
    THEN LET c1 == camera_follow(c, s, delta_time)
             x == QuotT(c1.distance * Sin(c1.yaw), TRIG_ONE)
             y == QuotT(c1.distance * Sin(c1.pitch), TRIG_ONE) + CAMERA_HEIGHT
             z == QuotT(QuotT(c1.distance * Cos(c1.yaw), TRIG_ONE)
                          * Cos(c1.pitch), TRIG_ONE)
         IN  [x |-> ct.x + QuotT(s.x + x - ct.x, 10),
              y |-> ct.y + QuotT(s.y + y - ct.y, 10),
              z |-> ct.z + QuotT(s.z + z - ct.z, 10)]
    ELSE ct

\* DirectionalLight and AmbientLight after setup
DefaultLight ==
    [illuminance |-> 12000, light_blue |-> FALSE,
     brightness |-> 800, ambient_blue |-> FALSE]

depth_lighting(ct) ==
    LET depth == -ct.y
        \* (depth / 10.0).clamp(0.0, 1.0), in thousandths
        underwater_factor == Clamp(QuotT(depth * 1000, 1280), 0, 1000)
    IN  [illuminance |-> 12000 - 6 * underwater_factor,
         light_blue |-> depth > 256,
         brightness |-> 800 + QuotT(300 * underwater_factor, 1000),
         ambient_blue |-> depth > 256]

---------------------------------------------------------------------------
(* Bubbles: bubble_spawner_system and bubble_animation_system.  The timer  *)
(* of the spawner and the Timer of a bubble count hundredths of a second.  *)

NoBubbles == [timer |-> 0, live |-> <<>>]

\* bubbles spawned by "while *timer > spawn_interval"
spawn_count(t) == IF t > BUBBLE_INTERVAL THEN (t - 1) \div BUBBLE_INTERVAL ELSE 0

\* rng is one draw of rand::random::<f32>(), in thousandths
bubble_spawner(bb, b, s, delta_time, rng) ==
    IF b.vents_open
    THEN IF s.exists
         THEN IF s.y < 0 /\ b.fill_level < FILL_FULL
              THEN LET t == bb.timer + 25 * delta_time
                       n == spawn_count(t)
                       bubble == [y |-> s.y - BUBBLE_DROP,
                                  elapsed |-> 0,
                                  duration |-> BUBBLE_LIFE + rng \div 20]
                   IN  [timer |-> t - n * BUBBLE_INTERVAL,
                        live |-> bb.live \o [k \in 1 .. n |-> bubble]]
              ELSE [bb EXCEPT !.timer = 0]
         ELSE bb
    ELSE [bb EXCEPT !.timer = 0]

\* one bubble after the rise and the tick of its Timer
bubble_rise(u, delta_time) ==
    [u EXCEPT !.y = u.y + QuotT(544 * delta_time, 10),
              !.elapsed = IF u.y + QuotT(544 * delta_time, 10) >= 0
                          THEN @ ELSE Min(@ + 25 * delta_time, u.duration)]

bubble_kept_timerOnly(u) == u.elapsed < u.duration

\* neither "if transform.translation.y >= 0.0" nor "if
\* bubble.timer.finished()" despawned the bubble
bubble_kept(u) == u.y < 0 /\ u.elapsed < u.duration

\* the despawn commands the loop body queues for a bubble that has risen
\* to u: the surface test ends the iteration with "continue"
despawn_commands(u) ==
    IF u.y >= 0 THEN 1
    ELSE IF u.elapsed >= u.duration THEN 1 ELSE 0

bubble_animation(bb, delta_time) ==
    LET risen == [k \in 1 .. Len(bb.live) |-> bubble_rise(bb.live[k], delta_time)]
    IN  [bb EXCEPT !.live = SelectSeq(risen, bubble_kept)]

---------------------------------------------------------------------------
(* Autonomous steering: the FishMovement component and fish_movement.      *)
(* direction is kept in thousandths.  Vec3::normalize of the zero vector   *)
(* divides by a zero length and yields NaN components: dir_nan says that   *)
(* direction is NaN, pos_nan that the translation is.                      *)

\* Vec3::normalize
Vec3Normalize(v) ==
    LET l == Length(v)
    IN  IF l = 0
        THEN [nan |-> TRUE, v |-> <<0, 0, 0>>]
        ELSE [nan |-> FALSE,
              v |-> <<QuotT(v[1] * TRIG_ONE, l), QuotT(v[2] * TRIG_ONE, l),
                      QuotT(v[3] * TRIG_ONE, l)>>]

\* the FishMovement and Transform a fish is spawned with at place p; r1 to
\* r5 are the draws of rand::random::<f32>() for the three components of
\* the direction, the speed and the interval, in thousandths
SpawnFish(p, r1, r2, r3, r4, r5) ==
    LET n == Vec3Normalize(<<(r1 - 500) * 2, QuotT((r2 - 500) * 4, 10),
                             (r3 - 500) * 2>>)
    IN  [alive |-> TRUE, x |-> p[1], y |-> p[2], z |-> p[3],
         dir |-> n.v, dir_nan |-> n.nan, pos_nan |-> FALSE,
         speed |-> 32 + QuotT(r4 * 64, 1000),
         timer |-> 0,
         interval |-> 8 + QuotT(r5 * 12, 1000)]

\* "if change_direction_timer >= change_direction_interval { ... }"
change_direction(f) ==
    IF f.timer >= f.interval
    THEN LET random_x == Sin(2 * f.timer + QuotT(f.x, 80)) * 2 - TRIG_ONE
             random_y == QuotT(Cos(QuotT(12 * f.timer, 10) + QuotT(f.y, 40)), 2)
                           - 250
             random_z == Sin(QuotT(28 * f.timer, 10) + QuotT(f.z, 80)) * 2
                           - TRIG_ONE
             n == Vec3Normalize(<<random_x, random_y, random_z>>)
         IN  [f EXCEPT !.dir = n.v,
                       !.dir_nan = n.nan,
                       !.timer = 0,
                       \* 1.5 + sin(timer * 0.2 + x * 0.01) * 2.0, timer = 0
                       !.interval = 6 + QuotT(Sin(QuotT(f.x, 800)) * 8, TRIG_ONE)]
    ELSE f

\* base_movement + sway_movement
swim(f, delta_time) ==
    LET sway_x == Sin(8 * f.timer + QuotT(f.x, 80))
        sway_z == Cos(6 * f.timer + QuotT(f.z, 80))
    IN  IF f.dir_nan
        THEN [f EXCEPT !.pos_nan = TRUE]
        ELSE [f EXCEPT
                !.x = @ + QuotT(f.dir[1] * f.speed * delta_time, TRIG_ONE)
                        + QuotT(sway_x * SWAY * delta_time, 10 * TRIG_ONE),
                !.y = @ + QuotT(f.dir[2] * f.speed * delta_time, TRIG_ONE),
                !.z = @ + QuotT(f.dir[3] * f.speed * delta_time, TRIG_ONE)
                        + QuotT(sway_z * SWAY * delta_time, 10 * TRIG_ONE)]

\* "if fish_transform.translation.y > 0.0 { ... }"
surface_bounce(f) ==
    IF f.y > 0
    THEN [f EXCEPT !.y = 0, !.dir = <<f.dir[1], -Abs(f.dir[2]), f.dir[3]>>]
    ELSE f

\* "if distance_from_origin > max_distance { ... }"
keep_in_bounds(f, delta_time) ==
    LET l == Length(<<f.x, f.y, f.z>>)
    IN  IF l > MAX_DISTANCE
        THEN [f EXCEPT
                !.x = @ + QuotT(-f.x * RETURN_SPEED * delta_time, l),
                !.y = @ + QuotT(-f.y * RETURN_SPEED * delta_time, l),
                !.z = @ + QuotT(-f.z * RETURN_SPEED * delta_time, l)]
        ELSE f

\* "if fish_transform.translation.y < -25.0 { ... }"
depth_bounce(f) ==
    IF f.y < MIN_FISH_Y
    THEN [f EXCEPT !.y = MIN_FISH_Y,
                   !.dir = <<f.dir[1], Abs(f.dir[2]), f.dir[3]>>]
    ELSE f

\* one iteration of the loop of fish_movement; with a NaN translation
\* every comparison is false and every sum NaN
fish_step(f, delta_time) ==
    IF f.pos_nan
    THEN [f EXCEPT !.timer = @ + delta_time, !.dir_nan = TRUE]
    ELSE LET f1 == change_direction([f EXCEPT !.timer = @ + delta_time])
             f2 == swim(f1, delta_time)
         IN  IF f2.pos_nan
             THEN f2
             ELSE depth_bounce(keep_in_bounds(surface_bounce(f2), delta_time))

\* the Fish entities after fish_movement
fish_movement(fs, delta_time) ==
    [i \in FishIds |->
        IF fs[i].alive THEN fish_step(fs[i], delta_time) ELSE fs[i]]

---------------------------------------------------------------------------
(* History of the scenarios the properties speak about.  vent_t is the     *)
(* time for which the vents have been open since the tank was empty;       *)
(* comp_* describe the current run of ticks that each started with the     *)
(* compressor on, the air valve closed, electricity left and depth 0:      *)
(* its length, the resources at its start, and whether no E or R key went  *)
(* down in it.  -1 says that no such run is going on.  pre_y, pre_vy and   *)
(* pre_det are what submarine_movement and sonar_detection_system found.   *)

NoScenario ==
    [vent_t |-> -1, comp_t |-> -1, comp_air0 |-> 0, comp_elec0 |-> 0,
     comp_clean |-> TRUE, pre_y |-> 0, pre_vy |-> 0, pre_det |-> <<>>,
     pre_pre_det |-> <<>>,
     order |-> <<>>, fill_before |-> 0, fill_read |-> 0,
     fish_before |-> <<>>, fish_read |-> <<>>,
     diff |-> 0, diff_used |-> FALSE,
     b0 |-> DefaultBallastState, depth0 |-> 0, despawned |-> FALSE]

observe(o, b0, ks, delta_time, depth) ==
    LET bt == apply_toggles(b0, ks, depth)
        vt == IF ~bt.vents_open THEN -1
              ELSE IF b0.fill_level = 0 THEN delta_time
              ELSE IF o.vent_t >= 0 THEN o.vent_t + delta_time
              ELSE -1
        cond0 == /\ b0.compressor_on
                 /\ ~b0.air_valve_open
                 /\ b0.electricity > 0
                 /\ depth = 0
        noToggle == "E" \notin ks /\ "R" \notin ks
        cont == o.comp_t >= 0
    IN  IF ~cond0
        THEN [o EXCEPT !.vent_t = vt,
                       !.comp_t = -1,
                       !.comp_air0 = 0,
                       !.comp_elec0 = 0,
                       !.comp_clean = TRUE]
        ELSE IF cont
             THEN [o EXCEPT !.vent_t = vt,
                            !.comp_t = o.comp_t + delta_time,
                            !.comp_clean = o.comp_clean /\ noToggle]
             ELSE [o EXCEPT !.vent_t = vt,
                            !.comp_t = delta_time,
                            !.comp_air0 = b0.compressed_air,
                            !.comp_elec0 = b0.electricity,
                            !.comp_clean = noToggle]

\* the BallastState and the depth that ballast_control_system found
observe_tick(o, b, depth) == [o EXCEPT !.b0 = b, !.depth0 = depth]

\* the vehicle's height and vertical velocity when submarine_movement ran
observe_movement(o, s) == [o EXCEPT !.pre_y = s.y, !.pre_vy = s.vy]

\* the detection list when sonar_detection_system ran
observe_detection(o, det) == [o EXCEPT !.pre_det = det]

\* the detection list when sonar_detection_system ran a second time, and
\* when it ran the time before
observe_rescan(o, det) ==
    [o EXCEPT !.pre_det = det, !.pre_pre_det = o.pre_det]

\* a frame begins: nothing has run in it; the fill level and the fish are
\* as the frame before left them
observe_frame(o, b, fs) ==
    [o EXCEPT !.order = <<>>, !.fill_before = b.fill_level,
              !.fish_before = fs, !.diff_used = FALSE]

\* system name has run
observe_run(o, name) == [o EXCEPT !.order = Append(@, name)]

\* what submarine_movement read of BallastState
observe_fill(o, b) == [o EXCEPT !.fill_read = b.fill_level]

\* the fish sonar_detection_system read
observe_fish(o, fs) == [o EXCEPT !.fish_read = fs]

\* bubble_animation_system has taken the bubbles from bb to bb2: has it
\* ever despawned one
observe_despawn(o, bb, bb2) ==
    [o EXCEPT !.despawned = @ \/ Len(bb2.live) < Len(bb.live)]

\* the angle_diff camera_follow computed
observe_diff(o, c, s) ==
    IF s.exists
    THEN [o EXCEPT !.diff = angle_diff(c.yaw, s.yaw), !.diff_used = TRUE]
    ELSE o

---------------------------------------------------------------------------
(* Initial state: the resources' Default impls and the entities of setup.  *)

\* places a fish may be at (setup spawns them at random; fish_movement and
\* the physics move them)
FishPlaces ==
    << <<0, -1792, -6144>>,
       <<6528, 0, 0>>,
       <<1280, -384, 0>>,
       <<-3840, 0, -5120>> >>

\* the draws that setup is taken to have made in the specifications that
\* do not vary them (thousandths)
FixedDraw == 250

FishAt(p) ==
    SpawnFish(p, FixedDraw, FixedDraw, FixedDraw, FixedDraw, FixedDraw)

\* poses <<x, z, yaw>> of the vehicle in the scan-only specification
SubPoses == { <<0, 0, 0>>, <<1280, 0, -6>> }

SetupFish == [i \in FishIds |-> FishAt(FishPlaces[((i - 1) % Len(FishPlaces)) + 1])]

InitCommon ==
    /\ ballast = DefaultBallastState
    /\ sub = DefaultSub
    /\ camera = DefaultCameraState
    /\ detections = <<>>
    /\ elapsed = 0
    /\ frame = 0
    /\ pc = "input"
    /\ dt = 0
    /\ keys = {}
    /\ obs = NoScenario
    /\ game = DefaultGameState
    /\ sweep_angle = 0
    /\ sweep_line = DefaultSweepLine
    /\ blips = DefaultBlips
    /\ ui = DefaultUi
    /\ bubbles = NoBubbles
    /\ camera_transform = DefaultCameraTransform
    /\ light = DefaultLight

Init ==
    /\ InitCommon
    /\ fish = SetupFish
    /\ angle_in = 0
    /\ angle_out = 0

---------------------------------------------------------------------------
(* The frame: main.rs:185-205 chains the Update systems; the physics       *)
(* plugin steps after them.                                                *)

DtSetMain == {0, 4}

\* at most one key goes down in a frame
KeySetsMain == {{}, {"W"}, {"Q"}, {"R"}}

\* draws of rand::random::<f32>() in bubble_spawner_system (thousandths)
RngSet == {0, 500}

Schedule_controllerFirst ==
    << "ballast_control_system", "submarine_movement",
       "sonar_sweep_system", "sonar_sweep_update_system",
       "sonar_detection_system", "sonar_blip_system",
       "fish_movement", "camera_follow",
       "oxygen_system", "collect_fish", "ui_system", "wave_system",
       "bubble_spawner_system", "bubble_animation_system",
       "depth_lighting_system" >>

\* the tuple handed to add_systems(Update, ( ... ).chain())
Schedule ==
    << "submarine_movement", "ballast_control_system", "camera_follow",
       "fish_movement", "oxygen_system", "collect_fish", "ui_system",
       "sonar_sweep_system", "sonar_sweep_update_system",
       "sonar_detection_system", "sonar_blip_system", "wave_system",
       "bubble_spawner_system", "bubble_animation_system",
       "depth_lighting_system" >>

\* position of system name in Schedule
SlotOf(name) == CHOOSE k \in 1 .. Len(Schedule) : Schedule[k] = name

\* what runs after p: the chain in order, then the physics step, then the
\* next frame
next_system(p) ==
    IF p = "input" THEN Schedule[1]
    ELSE IF p = "physics" THEN "input"
    ELSE IF SlotOf(p) = Len(Schedule) THEN "physics"
    ELSE Schedule[SlotOf(p) + 1]

BeginFrame ==
    /\ pc = "input"
    /\ frame < MaxFrames
    /\ \E d \in DtSetMain, ks \in KeySetsMain :
          /\ dt' = d
          /\ keys' = ks
    /\ frame' = frame + 1
    /\ pc' = next_system(pc)
    /\ obs' = observe_frame(obs, ballast, fish)
    /\ UNCHANGED <<ballast, sub, camera, fish, detections, elapsed,
                   angle_in, angle_out>>
    /\ UNCHANGED rest

\* the Submarine entity is gone (nothing in main.rs despawns it; every
\* system provides for submarine_query.single() failing); it is lost
\* before the last frame of a run
VehicleLost ==
    /\ pc = "input"
    /\ frame + 1 = MaxFrames
    /\ sub.exists
    /\ sub' = [sub EXCEPT !.exists = FALSE]
    /\ UNCHANGED <<ballast, camera, fish, detections, elapsed, frame, pc, dt,
                   keys, angle_in, angle_out, obs>>
    /\ UNCHANGED rest

RunSubmarineMovement ==
    /\ pc = "submarine_movement"
    /\ sub' = movement_sub(sub, ballast, keys, dt)
    /\ camera' = movement_camera(sub, camera, keys, dt)
    /\ obs' = observe_run(observe_fill(observe_movement(obs, sub), ballast), pc)
    /\ pc' = next_system(pc)
    /\ UNCHANGED <<ballast, fish, detections, elapsed, frame, dt, keys,
                   angle_in, angle_out>>
    /\ UNCHANGED rest

RunBallastControl ==
    /\ pc = "ballast_control_system"
    /\ ballast' = ballast_control(ballast, keys, dt, Depth(sub))
    /\ obs' = observe_run(observe(obs, ballast, keys, dt, Depth(sub)), pc)
    /\ pc' = next_system(pc)
    /\ UNCHANGED <<sub, camera, fish, detections, elapsed, frame, dt, keys,
                   angle_in, angle_out>>
    /\ UNCHANGED rest

RunCameraFollow ==
    /\ pc = "camera_follow"
    /\ camera' = camera_follow(camera, sub, dt)
    /\ camera_transform' = camera_follow_transform(camera_transform, camera, sub, dt)
    /\ obs' = observe_run(observe_diff(obs, camera, sub), pc)
    /\ pc' = next_system(pc)
    /\ UNCHANGED <<ballast, sub, fish, detections, elapsed, frame, dt, keys,
                   angle_in, angle_out>>
    /\ UNCHANGED <<game, sweep_angle, sweep_line, blips, ui, bubbles, light>>

RunFishMovement ==
    /\ pc = "fish_movement"
    /\ fish' = fish_movement(fish, dt)
    /\ obs' = observe_run(obs, pc)
    /\ pc' = next_system(pc)
    /\ UNCHANGED <<ballast, sub, camera, detections, elapsed, frame, dt, keys,
                   angle_in, angle_out>>
    /\ UNCHANGED rest

RunOxygenSystem ==
    /\ pc = "oxygen_system"
    /\ game' = oxygen_system(game, sub, dt)
    /\ obs' = observe_run(obs, pc)
    /\ pc' = next_system(pc)
    /\ UNCHANGED <<ballast, sub, camera, fish, detections, elapsed, frame, dt,
                   keys, angle_in, angle_out>>
    /\ UNCHANGED <<sweep_angle, sweep_line, blips, ui, bubbles,
                   camera_transform, light>>

RunCollectFish ==
    /\ pc = "collect_fish"
    /\ fish' = collect_fish_entities(sub, fish)
    /\ game' = collect_fish_game(game, sub, fish)
    /\ obs' = observe_run(obs, pc)
    /\ pc' = next_system(pc)
    /\ UNCHANGED <<ballast, sub, camera, detections, elapsed, frame, dt, keys,
                   angle_in, angle_out>>
    /\ UNCHANGED <<sweep_angle, sweep_line, blips, ui, bubbles,
                   camera_transform, light>>

RunUiSystem ==
    /\ pc = "ui_system"
    /\ ui' = ui_system(game, sub, fish, sweep_angle, detections, ballast)
    /\ obs' = observe_run(obs, pc)
    /\ pc' = next_system(pc)
    /\ UNCHANGED <<ballast, sub, camera, fish, detections, elapsed, frame, dt,
                   keys, angle_in, angle_out>>
    /\ UNCHANGED <<game, sweep_angle, sweep_line, blips, bubbles,
                   camera_transform, light>>

RunSonarSweep ==
    /\ pc = "sonar_sweep_system"
    /\ sweep_angle' = sonar_sweep(sweep_angle, dt)
    /\ obs' = observe_run(obs, pc)
    /\ pc' = next_system(pc)
    /\ UNCHANGED <<ballast, sub, camera, fish, detections, elapsed, frame, dt,
                   keys, angle_in, angle_out>>
    /\ UNCHANGED <<game, sweep_line, blips, ui, bubbles, camera_transform,
                   light>>

RunSonarSweepUpdate ==
    /\ pc = "sonar_sweep_update_system"
    /\ sweep_line' = sonar_sweep_update(sweep_angle, sub)
    /\ obs' = observe_run(obs, pc)
    /\ pc' = next_system(pc)
    /\ UNCHANGED <<ballast, sub, camera, fish, detections, elapsed, frame, dt,
                   keys, angle_in, angle_out>>
    /\ UNCHANGED <<game, sweep_angle, blips, ui, bubbles, camera_transform,
                   light>>

RunSonarDetection ==
    /\ pc = "sonar_detection_system"
    /\ detections' = sonar_detection(sub, fish, detections)
    /\ obs' = observe_run(observe_fish(observe_detection(obs, detections), fish),
                          pc)
    /\ pc' = next_system(pc)
    /\ UNCHANGED <<ballast, sub, camera, fish, elapsed, frame, dt, keys,
                   angle_in, angle_out>>
    /\ UNCHANGED rest

RunSonarBlip ==
    /\ pc = "sonar_blip_system"
    /\ blips' = sonar_blip(blips, detections)
    /\ obs' = observe_run(obs, pc)
    /\ pc' = next_system(pc)
    /\ UNCHANGED <<ballast, sub, camera, fish, detections, elapsed, frame, dt,
                   keys, angle_in, angle_out>>
    /\ UNCHANGED <<game, sweep_angle, sweep_line, ui, bubbles,
                   camera_transform, light>>

\* wave_time.elapsed += time.delta_secs(); the vertices of the water mesh
\* are not kept
RunWaveSystem ==
    /\ pc = "wave_system"
    /\ elapsed' = elapsed + dt
    /\ obs' = observe_run(obs, pc)
    /\ pc' = next_system(pc)
    /\ UNCHANGED <<ballast, sub, camera, fish, detections, frame, dt, keys,
                   angle_in, angle_out>>
    /\ UNCHANGED rest

RunBubbleSpawner_spendsAir ==
    /\ pc = "bubble_spawner_system"
    /\ \E rng \in RngSet :
          bubbles' = bubble_spawner(bubbles, ballast, sub, dt, rng)
    /\ ballast' = [ballast EXCEPT !.compressed_air =
                      IF Len(bubbles'.live) > Len(bubbles.live)
                      THEN Max(@ - 1, 0) ELSE @]
    /\ obs' = observe_run(obs, pc)
    /\ pc' = next_system(pc)
    /\ UNCHANGED <<sub, camera, fish, detections, elapsed, frame, dt,
                   keys, angle_in, angle_out>>
    /\ UNCHANGED <<game, sweep_angle, sweep_line, blips, ui,
                   camera_transform, light>>

RunBubbleSpawner ==
    /\ pc = "bubble_spawner_system"
    /\ \E rng \in RngSet :
          bubbles' = bubble_spawner(bubbles, ballast, sub, dt, rng)
    /\ obs' = observe_run(obs, pc)
    /\ pc' = next_system(pc)
    /\ UNCHANGED <<ballast, sub, camera, fish, detections, elapsed, frame, dt,
                   keys, angle_in, angle_out>>
    /\ UNCHANGED <<game, sweep_angle, sweep_line, blips, ui,
                   camera_transform, light>>

RunBubbleAnimation ==
    /\ pc = "bubble_animation_system"
    /\ bubbles' = bubble_animation(bubbles, dt)
    /\ obs' = observe_run(obs, pc)
    /\ pc' = next_system(pc)
    /\ UNCHANGED <<ballast, sub, camera, fish, detections, elapsed, frame, dt,
                   keys, angle_in, angle_out>>
    /\ UNCHANGED <<game, sweep_angle, sweep_line, blips, ui,
                   camera_transform, light>>

RunDepthLighting ==
    /\ pc = "depth_lighting_system"
    /\ light' = depth_lighting(camera_transform)
    /\ obs' = observe_run(obs, pc)
    /\ pc' = next_system(pc)
    /\ UNCHANGED <<ballast, sub, camera, fish, detections, elapsed, frame, dt,
                   keys, angle_in, angle_out>>
    /\ UNCHANGED <<game, sweep_angle, sweep_line, blips, ui, bubbles,
                   camera_transform>>

RunPhysics ==
    /\ pc = "physics"
    /\ sub' = physics_step(sub, dt)
    /\ pc' = next_system(pc)
    /\ UNCHANGED <<ballast, camera, fish, detections, elapsed, frame, dt, keys,
                   angle_in, angle_out, obs>>
    /\ UNCHANGED rest

Next ==
    \/ BeginFrame
    \/ VehicleLost
    \/ RunSubmarineMovement
    \/ RunBallastControl
    \/ RunCameraFollow
    \/ RunFishMovement
    \/ RunOxygenSystem
    \/ RunCollectFish
    \/ RunUiSystem
    \/ RunSonarSweep
    \/ RunSonarSweepUpdate
    \/ RunSonarDetection
    \/ RunSonarBlip
    \/ RunWaveSystem
    \/ RunBubbleSpawner
    \/ RunBubbleAnimation
    \/ RunDepthLighting
    \/ RunPhysics

Spec == Init /\ [][Next]_vars

---------------------------------------------------------------------------
(* The controller alone: ballast_control_system under every input, with    *)
(* the vehicle at the surface or below it.                                 *)

DtSetBallast == {0, 10, 20, 800}

KeysBallast == {"Q", "E", "R"}

ControllerTick ==
    /\ pc = "input"
    /\ frame < MaxTicks
    /\ frame' = frame + 1
    /\ \E d \in DtSetBallast, ks \in SUBSET KeysBallast :
          /\ dt' = d
          /\ keys' = ks
          /\ ballast' = ballast_control(ballast, ks, d, Depth(sub))
          /\ obs' = observe(obs, ballast, ks, d, Depth(sub))
          /\ elapsed' = elapsed + d
    /\ UNCHANGED <<sub, camera, fish, detections, pc, angle_in, angle_out>>
    /\ UNCHANGED rest

\* between two ticks the vehicle has dived or surfaced
VehicleMoved ==
    /\ pc = "input"
    /\ \E y \in {0, -128} :
          /\ y # sub.y
          /\ sub' = [sub EXCEPT !.y = y]
    /\ UNCHANGED <<ballast, camera, fish, detections, elapsed, frame, pc, dt, keys,
                   angle_in, angle_out, obs>>
    /\ UNCHANGED rest

NextBallast == ControllerTick \/ VehicleMoved

SpecBallast == Init /\ [][NextBallast]_vars


---------------------------------------------------------------------------
(* The scan alone: sonar_detection_system after every change of the poses  *)
(* it reads.  The vehicle entity may be gone (submarine_query.single()     *)
(* then fails), fish are despawned by collect_fish.                        *)

InitSonar ==
    /\ InitCommon
    /\ fish \in [FishIds -> {FishAt(FishPlaces[k]) : k \in 1 .. Len(FishPlaces)}]
    /\ angle_in = 0
    /\ angle_out = 0

PosesMayChange == pc \in {"input", "scanned"}

FishMoved ==
    /\ PosesMayChange
    /\ \E i \in FishIds, k \in 1 .. Len(FishPlaces) :
          /\ fish[i].alive
          /\ fish' = [fish EXCEPT ![i] = FishAt(FishPlaces[k])]
    /\ pc' = "sonar_detection_system"
    /\ UNCHANGED <<ballast, sub, camera, detections, elapsed, frame, dt, keys,
                   angle_in, angle_out, obs>>
    /\ UNCHANGED rest

FishDespawned ==
    /\ PosesMayChange
    /\ \E i \in FishIds :
          /\ fish[i].alive
          /\ fish' = [fish EXCEPT ![i].alive = FALSE]
    /\ pc' = "sonar_detection_system"
    /\ UNCHANGED <<ballast, sub, camera, detections, elapsed, frame, dt, keys,
                   angle_in, angle_out, obs>>
    /\ UNCHANGED rest

VehiclePosed ==
    /\ PosesMayChange
    /\ sub.exists
    /\ \E p \in SubPoses :
          sub' = [sub EXCEPT !.x = p[1], !.z = p[2], !.yaw = p[3]]
    /\ pc' = "sonar_detection_system"
    /\ UNCHANGED <<ballast, camera, fish, detections, elapsed, frame, dt, keys,
                   angle_in, angle_out, obs>>
    /\ UNCHANGED rest

VehicleDespawned ==
    /\ PosesMayChange
    /\ sub.exists
    /\ sub' = [sub EXCEPT !.exists = FALSE]
    /\ pc' = "sonar_detection_system"
    /\ UNCHANGED <<ballast, camera, fish, detections, elapsed, frame, dt, keys,
                   angle_in, angle_out, obs>>
    /\ UNCHANGED rest

ScanOnly ==
    /\ pc = "sonar_detection_system"
    /\ detections' = sonar_detection(sub, fish, detections)
    /\ obs' = observe_detection(obs, detections)
    /\ pc' = "scanned"
    /\ UNCHANGED <<ballast, sub, camera, fish, elapsed, frame, dt, keys,
                   angle_in, angle_out>>
    /\ UNCHANGED rest

\* the pass runs again on the poses it has just read
ScanAgain ==
    /\ pc \in {"scanned", "advanced"}
    /\ detections' = sonar_detection(sub, fish, detections)
    /\ obs' = observe_rescan(obs, detections)
    /\ pc' = "rescanned"
    /\ UNCHANGED <<ballast, sub, camera, fish, elapsed, frame, dt, keys,
                   angle_in, angle_out>>
    /\ UNCHANGED rest

\* between two passes the controller and the sweep have run once (vents
\* toggled, 2.5 s), the poses staying as they are
ResourcesAdvanced ==
    /\ pc = "scanned"
    /\ ballast' = ballast_control(ballast, {"Q"}, 10, Depth(sub))
    /\ sweep_angle' = sonar_sweep(sweep_angle, 10)
    /\ pc' = "advanced"
    /\ UNCHANGED <<sub, camera, fish, detections, elapsed, frame, dt, keys,
                   angle_in, angle_out, obs>>
    /\ UNCHANGED <<game, sweep_line, blips, ui, bubbles, camera_transform,
                   light>>

NextSonar ==
    \/ FishMoved
    \/ FishDespawned
    \/ VehiclePosed
    \/ VehicleDespawned
    \/ ScanOnly
    \/ ScanAgain
    \/ ResourcesAdvanced

SpecSonar == InitSonar /\ [][NextSonar]_vars

---------------------------------------------------------------------------
(* The scan of one fish on the vehicle's forward axis (local -Z), at the   *)
(* vehicle's depth, for several headings and every distance of a grid.     *)

\* the headings whose rotation is exact on the grid
AheadYaws == {0, FRAC_PI_2, PI, -FRAC_PI_2}

AheadDistances == {64 * k : k \in 1 .. (SONAR_RANGE \div 64)}

\* the fish d ahead of the vehicle s; the other fish are gone
FishAhead(s, d) ==
    LET rel == RotateY(s.yaw, <<0, 0, -d>>)
    IN  [i \in FishIds |->
            IF i = 1
            THEN FishAt(<<s.x + rel[1], s.y + rel[2], s.z + rel[3]>>)
            ELSE [FishAt(FishPlaces[1]) EXCEPT !.alive = FALSE]]

InitAhead ==
    /\ ballast = DefaultBallastState
    /\ camera = DefaultCameraState
    /\ detections = <<>>
    /\ elapsed = 0
    /\ frame = 0
    /\ dt = 0
    /\ keys = {}
    /\ obs = NoScenario
    /\ game = DefaultGameState
    /\ sweep_angle = 0
    /\ sweep_line = DefaultSweepLine
    /\ blips = DefaultBlips
    /\ ui = DefaultUi
    /\ bubbles = NoBubbles
    /\ camera_transform = DefaultCameraTransform
    /\ light = DefaultLight
    /\ angle_in = 0
    /\ angle_out = 0
    /\ pc = "sonar_detection_system"
    /\ \E p \in SubPoses, yaw \in AheadYaws, d \in AheadDistances :
          /\ sub = [DefaultSub EXCEPT !.x = p[1], !.z = p[2], !.yaw = yaw]
          /\ fish = FishAhead(sub, d)

NextAhead == ScanOnly

SpecAhead == InitAhead /\ [][NextAhead]_vars

---------------------------------------------------------------------------
(* normalize_angle applied to every angle of a range.                      *)

\* the arguments are -MaxAngle .. MaxAngle (sixteenths of a radian)
MaxAngle == 250

InitAngle ==
    /\ InitCommon
    /\ fish = SetupFish
    /\ angle_in \in (-MaxAngle) .. MaxAngle
    /\ angle_out = 0

CallNormalizeAngle ==
    /\ pc = "input"
    /\ angle_out' = normalize_angle(angle_in)
    /\ pc' = "returned"
    /\ UNCHANGED <<ballast, sub, camera, fish, detections, elapsed, frame,
                   dt, keys, angle_in, obs>>
    /\ UNCHANGED rest

NextAngle == CallNormalizeAngle

SpecAngle == InitAngle /\ [][NextAngle]_vars


---------------------------------------------------------------------------
(* Properties.                                                             *)

\* C1 (SpecBallast): after any sequence of controller ticks, with the Q and
\* E toggles requested in any combination (both in one tick included), the
\* vents and the air valve are never both open.
C1_ValvesExclusive == ~(ballast.vents_open /\ ballast.air_valve_open)

\* a tick in which both toggles were requested has run, and a valve is open
C1_Witness ==
    /\ frame > 1
    /\ {"Q", "E"} \subseteq keys
    /\ ballast.air_valve_open

\* C2 (SpecBallast): from the default BallastState, after every tick with
\* delta_time >= 0 and any toggles, fill_level and compressed_air are within
\* [0, 1] and electricity within [0, 100].
C2_ResourcesInRange ==
    /\ 0 <= ballast.fill_level /\ ballast.fill_level <= FILL_FULL
    /\ 0 <= ballast.compressed_air /\ ballast.compressed_air <= AIR_FULL
    /\ 0 <= ballast.electricity /\ ballast.electricity <= ELEC_FULL

\* electricity has been drained to the floor and refilled a little, while
\* the tank was filled to the cap
C2_Witness ==
    /\ ballast.fill_level = FILL_FULL
    /\ ballast.compressed_air = AIR_FULL
    /\ ballast.electricity > 0
    /\ ballast.electricity < 100
    /\ ~ballast.compressor_on

\* C3 as stated (Spec): in every reachable state, between the systems of a
\* frame and after the physics step included, the compressor is off
\* whenever the vehicle is below the surface.
C3_CompressorOffWheneverDeep == Depth(sub) > 0 => ~ballast.compressor_on

\* C3 amended (Spec): from the end of ballast_control_system until the
\* vehicle is next moved, the compressor is off if the vehicle is below the
\* surface.
C3_CompressorOffAfterController ==
    (pc \notin {"input", "submarine_movement", "ballast_control_system"}
       /\ Depth(sub) > 0)
        => ~ballast.compressor_on

\* the controller has run below the surface in a frame that asked for the
\* compressor
C3_Witness ==
    /\ pc = "camera_follow"
    /\ Depth(sub) > 0
    /\ "R" \in keys
    /\ ~ballast.compressor_on

\* C4 as stated (SpecAngle): normalize_angle returns a value in [0, 2*PI)
\* for every argument, arguments below -2*PI included.
C4_NormalizedInRange ==
    pc = "returned" => (0 <= angle_out /\ angle_out < TWO_PI)

\* distance(fish, vehicle) <= SONAR_RANGE, on the squares
WithinRange(s, f) ==
    LengthSquared(RelOf(s, f)) <= SONAR_RANGE * SONAR_RANGE

AtRange(s, f) ==
    LengthSquared(RelOf(s, f)) = SONAR_RANGE * SONAR_RANGE

\* the live fish within range of the vehicle
InRangeIds == {i \in FishIds : fish[i].alive /\ WithinRange(sub, fish[i])}

ListIsCurrent(det) ==
    LET ids == IF sub.exists THEN InRangeIds ELSE {}
    IN  /\ Len(det) = Cardinality(ids)
        /\ \A k \in 1 .. Len(det) :
              \E i \in ids : det[k] = RecordOf(sub, fish[i])
        /\ \A i \in ids :
              \E k \in 1 .. Len(det) : det[k] = RecordOf(sub, fish[i])

\* C6 as stated (SpecSonar): after the detection pass of every tick, ticks
\* without a vehicle included, the list is exactly the records of the
\* entities in range in that tick, with nothing from an earlier tick.
C6_ListCurrentEveryTick == pc = "scanned" => ListIsCurrent(detections)

\* C6 amended (SpecSonar): a detection pass that finds the vehicle leaves
\* exactly the records of the entities in range in that tick; a pass that
\* finds no vehicle leaves the list as it was.
C6_ListCurrentOrKept ==
    pc = "scanned" =>
        IF sub.exists THEN ListIsCurrent(detections)
                      ELSE detections = obs.pre_det

\* a pass without a vehicle has kept an earlier tick's records
C6_Witness ==
    /\ pc = "scanned"
    /\ ~sub.exists
    /\ detections # <<>>

\* C7 (SpecBallast): with the vents open ever since the tank was empty, for
\* a total of t over any number of ticks, fill_level = min(1, rate * t),
\* whatever the compressor and the electricity do.
C7_VentFill ==
    obs.vent_t >= 0 =>
        ballast.fill_level = Min(FILL_FULL, BALLAST_FILL_RATE * obs.vent_t)

\* the vents have been open for 20 quarters, the compressor running
C7_Witness ==
    /\ obs.vent_t = 20
    /\ ballast.compressor_on
    /\ ballast.electricity < ELEC_FULL

\* what C8 says of the resources after a compressor run of length comp_t
CompressorRunResult ==
    /\ ballast.compressed_air =
           Min(AIR_FULL, obs.comp_air0 + COMPRESSED_AIR_RATE * obs.comp_t)
    /\ ballast.electricity =
           Max(0, obs.comp_elec0 - COMPRESSOR_POWER_DRAIN * obs.comp_t)

\* C8 as stated (SpecBallast): after ticks that each started at depth 0
\* with the compressor on, the air valve closed and electricity left,
\* compressed_air = min(1, initial + rate * t) and
\* electricity = max(0, initial - drain * t).
C8_CompressorRun == obs.comp_t >= 0 => CompressorRunResult

\* C8 amended (SpecBallast): the same, for ticks in which neither the air
\* valve toggle (E) nor the compressor toggle (R) is requested.
C8_CompressorRunNoToggle ==
    (obs.comp_t >= 0 /\ obs.comp_clean) => CompressorRunResult

\* two ticks of such a run, from an empty air store
C8_Witness ==
    /\ obs.comp_t = 20
    /\ obs.comp_clean
    /\ obs.comp_air0 = 0
    /\ ballast.compressed_air = AIR_FULL

\* C9 (Spec): after submarine_movement the vehicle is not above the
\* surface; if it was above when the step ran, it is on the surface and its
\* vertical velocity is min(the velocity it had, 0): the clamp has zeroed
\* it and no buoyancy has been added.
C9_SurfaceClamp ==
    (pc = "ballast_control_system" /\ sub.exists) =>
        /\ sub.y <= 0
        /\ obs.pre_y > 0 => (sub.y = 0 /\ sub.vy = Min(obs.pre_vy, 0))

\* the step has run on a vehicle that was above the surface and rising
C9_Witness ==
    /\ pc = "ballast_control_system"
    /\ sub.exists
    /\ obs.pre_y > 0
    /\ obs.pre_vy > 0
    /\ sub.y = 0

\* C10 as stated (Spec): a vehicle on the surface plane at the end of
\* submarine_movement has no upward velocity, whatever the fill level, and
\* the vehicle is never above the plane.
C10_NoUpwardVelocityAtSurface ==
    sub.exists =>
        /\ (pc = "ballast_control_system" /\ sub.y = 0) => sub.vy <= 0
        /\ sub.y <= 0

\* system a has run in this frame, and before system b
RanBefore(a, b) ==
    \E i, j \in 1 .. Len(obs.order) :
        i < j /\ obs.order[i] = a /\ obs.order[j] = b

C12_SoleWriter ==
    [][pc # "ballast_control_system" => ballast' = ballast]_vars

\* the bubble spawner has read the open vents and spawned bubbles, the
\* kinematics has read a fill level above zero
C12_Witness ==
    /\ pc = "bubble_animation_system"
    /\ ballast.vents_open
    /\ bubbles.live # <<>>
    /\ obs.fill_read > 0

\* the offset of fish f in the frame of vehicle s
LocalRel(s, f) == RotateY(-s.yaw, RelOf(s, f))

C14_RescanSame ==
    pc = "rescanned" =>
        /\ detections = obs.pre_det
        /\ sub.exists => ListIsCurrent(detections)

\* the second run came after a change of sweep and ballast, and the list
\* before the first run was another one
C14_Witness ==
    /\ pc = "rescanned"
    /\ sub.exists
    /\ detections # <<>>
    /\ obs.pre_pre_det # <<>>
    /\ obs.pre_pre_det # detections
    /\ sweep_angle # 0
    /\ ballast.vents_open

\* what the systems other than the bookkeeping of the frame act on
world ==
    <<ballast, sub, camera, fish, detections, elapsed, game, sweep_angle,
      sweep_line, blips, ui, bubbles, camera_transform, light>>

\* C15 (Spec): in a tick without a vehicle, submarine_movement,
\* camera_follow, sonar_detection_system and collect_fish change nothing;
\* ballast_control_system does what it does at depth 0, so that a press of R
\* toggles the compressor; oxygen_system adds 5 per second up to 100 and
\* leaves the health; ui_system reports speed 0, depth 0 and zero yaw,
\* pitch and roll.
C15_NoVehicleTick ==
    [][~sub.exists =>
        /\ pc \in {"submarine_movement", "camera_follow",
                   "sonar_detection_system", "collect_fish"}
               => world' = world
        /\ pc = "ballast_control_system" =>
               /\ ballast' = ballast_control(ballast, keys, dt, 0)
               /\ ("R" \in keys /\ ballast.electricity > 0)
                      => ballast'.compressor_on = ~ballast.compressor_on
        /\ pc = "oxygen_system" =>
               game' = [game EXCEPT
                           !.oxygen = Min(@ + dt * OXYGEN_GAIN, OXYGEN_FULL)]
        /\ pc = "ui_system" =>
               /\ ui'.speed = 0 /\ ui'.depth = 0
               /\ ui'.yaw = 0 /\ ui'.pitch = 0 /\ ui'.roll = 0
     ]_vars

\* the vehicle was lost deep and moving; in the tick after, R started the
\* compressor, the oxygen is at 100 and the panel shows zeros
C15_Witness ==
    /\ ~sub.exists
    /\ pc = "sonar_sweep_system"
    /\ sub.y < 0 /\ sub.vy # 0
    /\ "R" \in keys /\ ballast.compressor_on
    /\ dt > 0
    /\ game.oxygen = OXYGEN_FULL
    /\ ui.speed = 0 /\ ui.depth = 0

\* C16 (Spec): sweep_angle never increases; sonar_sweep_system takes
\* SWEEP_SPEED * delta_time off it, with or without a vehicle and whatever is
\* detected; no other system writes it; at the end of every frame it is
\* minus SWEEP_SPEED times the time elapsed since the start.
C16_SweepFixedRate ==
    [][/\ sweep_angle' <= sweep_angle
       /\ pc = "sonar_sweep_system" =>
              sweep_angle' = sweep_angle - SWEEP_SPEED * dt
       /\ pc # "sonar_sweep_system" => sweep_angle' = sweep_angle
       /\ pc' = "input" => sweep_angle' = 0 - SWEEP_SPEED * elapsed'
     ]_vars

\* two seconds swept, the last frame without a vehicle and with a record in
\* the list
C16_Witness ==
    /\ pc = "input"
    /\ ~sub.exists
    /\ detections # <<>>
    /\ elapsed = 8
    /\ sweep_angle = 0 - SWEEP_SPEED * 8

---------------------------------------------------------------------------
(* Blip specification: sonar_blip_system on detection lists shorter and    *)
(* longer than the 20 blip nodes of setup (setup spawns FISH_COUNT = 80    *)
(* fish, so the list can be longer than the panel has nodes).              *)

\* the longest list drawn
MaxRecords == 22

BlipLengths == {0, 1, NUM_BLIPS - 1, NUM_BLIPS, NUM_BLIPS + 1, MaxRecords}

BlipAngles == {0, FRAC_PI_2}

\* n records as sonar_detection_system pushes them: fish 1.5 m apart along
\* the bearing a
DetectionList(n, a) ==
    [i \in 1 .. n |->
        LET p == calculate_sonar_position(a, 192 * i)
        IN  <<p[1], p[2], a, FALSE>>]

InitBlip ==
    /\ InitCommon
    /\ fish = SetupFish
    /\ angle_in = 0
    /\ angle_out = 0

\* the detection pass has left a list
ListDrawn ==
    /\ pc = "input"
    /\ frame < MaxFrames
    /\ \E n \in BlipLengths, a \in BlipAngles :
          detections' = DetectionList(n, a)
    /\ frame' = frame + 1
    /\ pc' = "sonar_blip_system"
    /\ UNCHANGED <<ballast, sub, camera, fish, elapsed, dt, keys, angle_in,
                   angle_out, obs>>
    /\ UNCHANGED rest

BlipOnly ==
    /\ pc = "sonar_blip_system"
    /\ blips' = sonar_blip(blips, detections)
    /\ pc' = "input"
    /\ UNCHANGED <<ballast, sub, camera, fish, detections, elapsed, frame, dt,
                   keys, angle_in, angle_out, obs>>
    /\ UNCHANGED <<game, sweep_angle, sweep_line, ui, bubbles,
                   camera_transform, light>>

NextBlip ==
    \/ ListDrawn
    \/ BlipOnly

SpecBlip == InitBlip /\ [][NextBlip]_vars

ShownSlots == {i \in 1 .. Len(blips) : blips[i].shown}

\* C17 (SpecBlip): after sonar_blip_system has run on a list of n records
\* there are still 20 blip nodes, the first min(n, 20) of them are solid and
\* placed at their record (its position less the 3 px half width), the
\* others are transparent, and the records after the 20th are shown
\* nowhere.
C17_BlipsShowList ==
    (pc = "input" /\ frame > 0) =>
        LET n == Len(detections)
        IN  /\ Len(blips) = NUM_BLIPS
            /\ Cardinality(ShownSlots) = Min(n, NUM_BLIPS)
            /\ \A i \in 1 .. NUM_BLIPS :
                  IF i <= n
                  THEN /\ blips[i].shown
                       /\ blips[i].left = detections[i][1] - BLIP_HALF
                       /\ blips[i].top = detections[i][2] - BLIP_HALF
                  ELSE ~blips[i].shown

\* a list longer than the panel has nodes, shown up to its 20th record
C17_Witness ==
    /\ pc = "input"
    /\ Len(detections) = NUM_BLIPS + 1
    /\ Cardinality(ShownSlots) = NUM_BLIPS
    /\ blips[NUM_BLIPS].left = detections[NUM_BLIPS][1] - BLIP_HALF

---------------------------------------------------------------------------
(* Observer specification: the two systems that take CameraState,          *)
(* submarine_movement and camera_follow, in their order in the chain,      *)
(* under the turn keys and the arrow keys.                                 *)

\* 0.25 s and 1 s
DtSetCamera == {1, 4}

KeySetsCamera ==
    {{}, {"A"}, {"D"}, {"ArrowRight"}, {"ArrowUp"}, {"ArrowDown"},
     {"ArrowUp", "ArrowDown"}}

InitCamera ==
    /\ InitCommon
    /\ fish = SetupFish
    /\ angle_in = 0
    /\ angle_out = 0

CameraInput ==
    /\ pc = "input"
    /\ frame < MaxFrames
    /\ \E d \in DtSetCamera, ks \in KeySetsCamera :
          /\ dt' = d
          /\ keys' = ks
    /\ frame' = frame + 1
    /\ pc' = "submarine_movement"
    /\ obs' = observe_frame(obs, ballast, fish)
    /\ UNCHANGED <<ballast, sub, camera, fish, detections, elapsed,
                   angle_in, angle_out>>
    /\ UNCHANGED rest

MovementOnly ==
    /\ pc = "submarine_movement"
    /\ sub' = movement_sub(sub, ballast, keys, dt)
    /\ camera' = movement_camera(sub, camera, keys, dt)
    /\ pc' = "camera_follow"
    /\ UNCHANGED <<ballast, fish, detections, elapsed, frame, dt, keys,
                   angle_in, angle_out, obs>>
    /\ UNCHANGED rest

FollowOnly ==
    /\ pc = "camera_follow"
    /\ camera' = camera_follow(camera, sub, dt)
    /\ camera_transform' =
           camera_follow_transform(camera_transform, camera, sub, dt)
    /\ obs' = observe_diff(obs, camera, sub)
    /\ pc' = "input"
    /\ UNCHANGED <<ballast, sub, fish, detections, elapsed, frame, dt, keys,
                   angle_in, angle_out>>
    /\ UNCHANGED <<game, sweep_angle, sweep_line, blips, ui, bubbles, light>>

NextCamera ==
    \/ CameraInput
    \/ MovementOnly
    \/ FollowOnly

SpecCamera == InitCamera /\ [][NextCamera]_vars

\* C18 (SpecCamera): the angle_diff that camera_follow computes lies in
\* (-PI, PI], whatever yaw and target_yaw are.
C18_DiffIsShortest ==
    obs.diff_used => (-PI < obs.diff /\ obs.diff <= PI)

\* C19 (SpecCamera): the pitch of CameraState is within [-1.0, 1.0] after
\* every step, under any succession of ArrowUp and ArrowDown and any delta
\* time, and only submarine_movement changes it.
C19_PitchClamped ==
    [][/\ -PITCH_LIMIT <= camera'.pitch /\ camera'.pitch <= PITCH_LIMIT
       /\ pc # "submarine_movement" => camera'.pitch = camera.pitch
     ]_vars

\* ArrowUp has been held to the limit and then a frame of ArrowDown taken
\* the pitch below it, camera_follow having run in between
C19_Witness ==
    /\ pc = "input"
    /\ frame >= 2
    /\ "ArrowDown" \in keys
    /\ camera.pitch = PITCH_LIMIT - CAMERA_ROTATION_SPEED
    /\ obs.diff_used

---------------------------------------------------------------------------
(* Steering specification: fish_movement alone, on fish spawned with the   *)
(* random draws of setup.                                                  *)

\* draws of rand::random::<f32>(), in thousandths: the ends and the middle
\* of [0, 1)
SpawnDraws == {0, 500, 999}

\* 0.25 s, 1 s and 2.5 s
DtSetFish == {1, 4, 10}

\* where setup may put the fish followed here: the places above and that
\* of a fish of the outermost ring at angle_in_ring = pi, 140 m out and
\* 10 m deep
SpawnPlaces == FishPlaces \o << <<-17920, -1280, 0>> >>

InitFish ==
    /\ InitCommon
    /\ \E k \in 1 .. Len(SpawnPlaces), r1 \in SpawnDraws, r2 \in SpawnDraws,
          r3 \in SpawnDraws, r4 \in {0, 999}, r5 \in {0, 999} :
          fish = [i \in FishIds |->
                     IF i = 1
                     THEN SpawnFish(SpawnPlaces[k], r1, r2, r3, r4, r5)
                     ELSE SetupFish[i]]
    /\ angle_in = 0
    /\ angle_out = 0

SteeringOnly ==
    /\ pc = "input"
    /\ frame < MaxFrames
    /\ \E d \in DtSetFish :
          /\ dt' = d
          /\ fish' = fish_movement(fish, d)
    /\ obs' = observe_fish(obs, fish)
    /\ frame' = frame + 1
    /\ UNCHANGED <<ballast, sub, camera, detections, elapsed, pc, keys,
                   angle_in, angle_out>>
    /\ UNCHANGED rest

\* sonar_detection_system, later in the chain, reads the fish as
\* fish_movement has left them
ScanSteered ==
    /\ pc = "input"
    /\ frame > 0
    /\ detections' = sonar_detection(sub, fish, detections)
    /\ pc' = "scanned"
    /\ UNCHANGED <<ballast, sub, camera, fish, elapsed, frame, dt, keys,
                   angle_in, angle_out, obs>>
    /\ UNCHANGED rest

NextFish ==
    \/ SteeringOnly
    \/ ScanSteered

SpecFish == InitFish /\ [][NextFish]_vars

\* C20 (SpecFish): the direction of every fish is a unit vector (to within
\* the rounding of the thousandths kept here) in every state.
C20_DirectionUnit ==
    \A i \in FishIds :
        fish[i].alive =>
            /\ ~fish[i].dir_nan
            /\ LengthSquared(fish[i].dir) >= 990 * 990
            /\ LengthSquared(fish[i].dir) <= 1010 * 1010

---------------------------------------------------------------------------
(* Tick specification: one run of ballast_control_system, observed, on a   *)
(* BallastState that earlier runs of it have left.  The earlier runs are   *)
(* a script of at most MaxScript ticks at the surface.                     *)

\* the longest script of earlier ticks
MaxScript == 5

\* <<keys just pressed, delta time>> of an earlier tick
ScriptSteps ==
    { <<{"Q"}, 20>>, <<{"E"}, 5>>, <<{"E"}, 10>>, <<{"E"}, 20>>,
      <<{"R"}, 0>>, <<{"R"}, 800>>, <<{}, 5>> }

RECURSIVE Played(_, _)
\* the BallastState after the first n ticks of a script
Played(script, n) ==
    IF n = 0
    THEN DefaultBallastState
    ELSE ballast_control(Played(script, n - 1), script[n][1], script[n][2], 0)

DtSetTick == {0, 5, 20, 800}

InitTick ==
    /\ \E n \in 0 .. MaxScript :
          \E script \in [1 .. n -> ScriptSteps] :
              ballast = Played(script, n)
    /\ sub = DefaultSub
    /\ camera = DefaultCameraState
    /\ fish = SetupFish
    /\ detections = <<>>
    /\ elapsed = 0
    /\ frame = 0
    /\ pc = "input"
    /\ dt = 0
    /\ keys = {}
    /\ obs = NoScenario
    /\ game = DefaultGameState
    /\ sweep_angle = 0
    /\ sweep_line = DefaultSweepLine
    /\ blips = DefaultBlips
    /\ ui = DefaultUi
    /\ bubbles = NoBubbles
    /\ camera_transform = DefaultCameraTransform
    /\ light = DefaultLight
    /\ angle_in = 0
    /\ angle_out = 0

\* the vehicle has dived before the tick
Dived ==
    /\ pc = "input"
    /\ sub.y = 0
    /\ sub' = [sub EXCEPT !.y = -128]
    /\ UNCHANGED <<ballast, camera, fish, detections, elapsed, frame, pc, dt,
                   keys, angle_in, angle_out, obs>>
    /\ UNCHANGED rest

TickObserved ==
    /\ pc = "input"
    /\ \E d \in DtSetTick, ks \in SUBSET KeysBallast :
          /\ dt' = d
          /\ keys' = ks
          /\ ballast' = ballast_control(ballast, ks, d, Depth(sub))
    /\ obs' = observe_tick(obs, ballast, Depth(sub))
    /\ frame' = frame + 1
    /\ pc' = "ticked"
    /\ UNCHANGED <<sub, camera, fish, detections, elapsed, angle_in,
                   angle_out>>
    /\ UNCHANGED rest

NextTick ==
    \/ Dived
    \/ TickObserved

SpecTick == InitTick /\ [][NextTick]_vars

\* the BallastState of the observed tick after its toggles, after its
\* compressor step and after its recharge step
AfterToggles == apply_toggles(obs.b0, keys, obs.depth0)

AfterCompressor == compressor_step(AfterToggles, dt, obs.depth0)

AfterRecharge == recharge_step(AfterCompressor, dt)

\* C21 (SpecTick): after a tick evaluated with depth > 0 the compressor is
\* off, whether it was on before and whether or not R was pressed, and the
\* electricity has been recharged in that tick.
C21_OffAndRechargedWhenDeep ==
    (pc = "ticked" /\ obs.depth0 > 0) =>
        /\ ~ballast.compressor_on
        /\ ballast.electricity =
               Min(obs.b0.electricity + POWER_RECHARGE_RATE * dt, ELEC_FULL)

\* the compressor was running with power spent when the vehicle dived; the
\* tick has switched it off and recharged
C21_Witness ==
    /\ pc = "ticked"
    /\ obs.depth0 > 0
    /\ obs.b0.compressor_on
    /\ "R" \notin keys
    /\ ~ballast.compressor_on
    /\ ballast.electricity > obs.b0.electricity

\* whether the generation branch of the compressor step ran in the
\* observed tick
GenerationRan ==
    /\ AfterToggles.compressor_on
    /\ AfterToggles.electricity > 0
    /\ obs.depth0 <= 0

\* C22 (SpecTick): compressed_air is higher after a tick than before it only
\* if, once the toggles were applied, the compressor was on, electricity was
\* above 0 and depth was <= 0; the compressor step adds air in no other
\* tick, and electricity is lower after a tick only if generation ran.
C22_GenerationOnlyWhenPowered ==
    pc = "ticked" =>
        /\ ballast.compressed_air > obs.b0.compressed_air => GenerationRan
        /\ AfterCompressor.compressed_air > obs.b0.compressed_air
               => GenerationRan
        /\ ballast.electricity < obs.b0.electricity => GenerationRan

\* generation ran: air went up and electricity down
C22_Witness ==
    /\ pc = "ticked"
    /\ GenerationRan
    /\ ballast.compressed_air > obs.b0.compressed_air
    /\ ballast.electricity < obs.b0.electricity

\* C23 (SpecTick): electricity is recharged by POWER_RECHARGE_RATE *
\* delta_time, capped at 100, exactly in the ticks in which the compressor is
\* off after the compressor step; in a tick that ends with the compressor on
\* electricity has not gone up, and in one that ends with it off electricity
\* has not gone down.
C23_RechargeIffOff ==
    pc = "ticked" =>
        IF AfterCompressor.compressor_on
        THEN /\ ballast.compressor_on
             /\ ballast.electricity = AfterCompressor.electricity
             /\ ballast.electricity <= obs.b0.electricity
        ELSE /\ ~ballast.compressor_on
             /\ ballast.electricity =
                    Min(obs.b0.electricity + POWER_RECHARGE_RATE * dt,
                        ELEC_FULL)
             /\ ballast.electricity >= obs.b0.electricity

\* R has stopped the compressor at the surface with power spent, and the
\* tick has recharged
C23_Witness ==
    /\ pc = "ticked"
    /\ obs.depth0 = 0
    /\ obs.b0.compressor_on
    /\ obs.b0.electricity < ELEC_FULL - 100
    /\ "R" \in keys
    /\ ~ballast.compressor_on
    /\ ballast.electricity = obs.b0.electricity + POWER_RECHARGE_RATE * dt
    /\ dt > 0

\* C24 (SpecBallast): from a state with the compressor on, electricity at 0
\* and depth <= 0, a tick without an R press and with depth <= 0 leaves the
\* compressor on and electricity at 0 and adds no compressed air; so the
\* state lasts for as long as no R is pressed and the vehicle does not dive.
C24_FlatCompressorStaysOn ==
    [][(/\ frame' # frame
        /\ ballast.compressor_on
        /\ ballast.electricity = 0
        /\ Depth(sub) <= 0
        /\ "R" \notin keys')
           => /\ ballast'.compressor_on
              /\ ballast'.electricity = 0
              /\ ballast'.compressed_air <= ballast.compressed_air
     ]_vars

\* R started the compressor in a first tick of 200 s, which spent all the
\* electricity; a second tick of 200 s without R has left it on and flat
C24_Witness ==
    /\ frame = 2
    /\ elapsed = 1600
    /\ dt = 800
    /\ "R" \notin keys
    /\ Depth(sub) = 0
    /\ ballast.compressor_on
    /\ ballast.electricity = 0

\* C25 (SpecTick): in a tick whose transfer step finds the vents open, that
\* step leaves compressed_air and air_valve_open as it found them, and the
\* fill level is the old one plus BALLAST_FILL_RATE * delta_time, capped at
\* 1, so not lower than before.
C25_VentsUseNoAir ==
    (pc = "ticked" /\ AfterRecharge.vents_open) =>
        /\ ballast.compressed_air = AfterRecharge.compressed_air
        /\ ballast.air_valve_open = AfterRecharge.air_valve_open
        /\ ballast.fill_level =
               Min(obs.b0.fill_level + BALLAST_FILL_RATE * dt, FILL_FULL)
        /\ ballast.fill_level >= obs.b0.fill_level

\* water came in through the vents while the air store was partly used
C25_Witness ==
    /\ pc = "ticked"
    /\ AfterRecharge.vents_open
    /\ ballast.fill_level > obs.b0.fill_level
    /\ obs.b0.compressed_air > 0
    /\ obs.b0.compressed_air < AIR_FULL
    /\ ballast.compressed_air = obs.b0.compressed_air

\* the drain branch of the transfer step ran in the observed tick
Draining ==
    /\ ~AfterRecharge.vents_open
    /\ AfterRecharge.air_valve_open
    /\ AfterRecharge.compressed_air > 0

\* what the drain took from the tank and from the air store
FillDrained == obs.b0.fill_level - ballast.fill_level

AirConsumed == AfterRecharge.compressed_air - ballast.compressed_air

\* the amounts of C26
DrainAmounts ==
    /\ ballast.fill_level =
           Max(obs.b0.fill_level - BALLAST_DRAIN_RATE * dt, 0)
    /\ 2 * ballast.compressed_air =
           Max(2 * AfterRecharge.compressed_air - BALLAST_DRAIN_RATE * dt, 0)

\* C26 as stated (SpecTick): in a tick with the vents closed, the air valve
\* open and compressed_air > 0, fill_level goes down by BALLAST_DRAIN_RATE *
\* delta_time (floored at 0) and compressed_air by half of that (floored at
\* 0), and the water drained is never more than twice the air consumed.
C26_DrainTwiceTheAir ==
    (pc = "ticked" /\ Draining) =>
        /\ DrainAmounts
        /\ FillDrained <= 2 * AirConsumed

\* C26 (SpecTick): the same amounts; the water drained is at most twice the
\* air consumed in every tick that leaves compressed air, while a tick in
\* which the air runs out drains up to BALLAST_DRAIN_RATE * delta_time of
\* water all the same.
C26_DrainTwiceTheAirLeft ==
    (pc = "ticked" /\ Draining) =>
        /\ DrainAmounts
        /\ ballast.compressed_air > 0 => FillDrained <= 2 * AirConsumed
        /\ FillDrained <= BALLAST_DRAIN_RATE * dt

\* a drain that hit neither floor
C26_Witness ==
    /\ pc = "ticked"
    /\ Draining
    /\ ballast.fill_level > 0
    /\ ballast.compressed_air > 0
    /\ FillDrained = BALLAST_DRAIN_RATE * dt
    /\ FillDrained = 2 * AirConsumed
    /\ dt > 0

\* C27 as stated (SpecTick): after a tick the air valve is open only if the
\* tank holds water.
C27_ValveOpenOnlyWithWater ==
    ballast.air_valve_open => ballast.fill_level > 0

\* C27 (SpecTick): after a tick the air valve is open only if the tank holds
\* water or there is no compressed air: the valve is closed by the drain
\* branch, which needs compressed air to run.
C27_ValveOpenOnlyWithWaterOrNoAir ==
    ballast.air_valve_open =>
        (ballast.fill_level > 0 \/ ballast.compressed_air = 0)

\* the drain has emptied the tank and closed the valve, air being left
C27_Witness ==
    /\ pc = "ticked"
    /\ obs.b0.air_valve_open
    /\ obs.b0.fill_level > 0
    /\ keys = {}
    /\ ballast.fill_level = 0
    /\ ballast.compressed_air > 0
    /\ ~ballast.air_valve_open

\* C29 (SpecTick): Q alone flips vents_open and closes the air valve if the
\* vents end open, leaving it otherwise; E alone flips air_valve_open and
\* closes the vents if the valve ends open, leaving them otherwise; without
\* Q and E the valves stay; without R compressor_on stays; with Q and E both
\* pressed the vent toggle comes first, so the valve ends open and the vents
\* closed.  Nothing after the toggles writes vents_open.
C29_ToggleFrame ==
    pc = "ticked" =>
        LET b == obs.b0
            t == AfterToggles
        IN  /\ ("Q" \in keys /\ "E" \notin keys) =>
                  /\ t.vents_open = ~b.vents_open
                  /\ t.air_valve_open =
                         (IF t.vents_open THEN FALSE ELSE b.air_valve_open)
            /\ ("E" \in keys /\ "Q" \notin keys) =>
                  /\ t.air_valve_open = ~b.air_valve_open
                  /\ t.vents_open =
                         (IF t.air_valve_open THEN FALSE ELSE b.vents_open)
            /\ ("Q" \notin keys /\ "E" \notin keys) =>
                  /\ t.vents_open = b.vents_open
                  /\ t.air_valve_open = b.air_valve_open
            /\ ("Q" \in keys /\ "E" \in keys) =>
                  /\ t.air_valve_open
                  /\ ~t.vents_open
            /\ "R" \notin keys => t.compressor_on = b.compressor_on
            /\ ballast.vents_open = t.vents_open

\* Q and E pressed together on open vents: the valve has ended open
C29_Witness ==
    /\ pc = "ticked"
    /\ keys = {"Q", "E"}
    /\ obs.b0.vents_open
    /\ obs.b0.compressor_on
    /\ ballast.air_valve_open
    /\ ~ballast.vents_open
    /\ ballast.compressor_on

---------------------------------------------------------------------------
(* Drain specification: from a BallastState with the air valve open, the   *)
(* controller runs tick after tick with positive delta times and no key    *)
(* pressed, and is followed for as long as the valve is open.  Bevy runs   *)
(* the Update schedule in every frame for as long as the app runs, which   *)
(* is the fairness stated.                                                 *)

\* 0.25 s and 1.25 s
DtSetDrain == {1, 5}

InitDrain ==
    /\ InitTick
    /\ ballast.air_valve_open

IdleTick ==
    /\ pc = "input"
    /\ ballast.air_valve_open
    /\ \E d \in DtSetDrain :
          /\ dt' = d
          /\ ballast' = ballast_control(ballast, {}, d, Depth(sub))
    /\ obs' = observe_tick(obs, ballast, Depth(sub))
    /\ UNCHANGED <<sub, camera, fish, detections, elapsed, frame, pc, keys,
                   angle_in, angle_out>>
    /\ UNCHANGED rest

NextDrain ==
    \/ Dived
    \/ IdleTick

SpecDrain == InitDrain /\ [][NextDrain]_vars /\ WF_vars(IdleTick)

\* the air valve is open and compressed air is left
StillDraining == ballast.air_valve_open /\ ballast.compressed_air > 0

\* the air valve has closed on an empty tank, or the compressed air is spent
DrainOver ==
    \/ ~ballast.air_valve_open /\ ballast.fill_level = 0
    \/ ballast.compressed_air = 0

\* the generation branch of the compressor step runs in the coming tick
Generating ==
    ballast.compressor_on /\ ballast.electricity > 0 /\ Depth(sub) <= 0

\* C28 as stated (SpecDrain): with the air valve open and no key pressed,
\* ticks of positive delta time lead to the valve closed on an empty tank or
\* to compressed_air = 0, and until then every tick lowers both fill_level
\* and compressed_air.
C28_DrainsOutBothFalling ==
    /\ ballast.air_valve_open ~> DrainOver
    /\ [][(StillDraining /\ sub' = sub) =>
              /\ ballast'.fill_level < ballast.fill_level
              /\ ballast'.compressed_air < ballast.compressed_air
        ]_vars

\* C28 (SpecDrain): the same end is reached, and until then every tick
\* lowers fill_level and does not raise compressed_air, which it lowers
\* unless the compressor is generating air in that tick.
C28_DrainsOut ==
    /\ ballast.air_valve_open ~> DrainOver
    /\ [][(StillDraining /\ sub' = sub) =>
              /\ ballast'.fill_level < ballast.fill_level
              /\ ballast'.compressed_air <= ballast.compressed_air
              /\ ~Generating =>
                     ballast'.compressed_air < ballast.compressed_air
        ]_vars

\* a drain of several ticks has emptied the tank and closed the valve
C28_Witness ==
    /\ obs.b0.air_valve_open
    /\ obs.b0.compressed_air > 0
    /\ obs.b0.fill_level > 0
    /\ obs.b0.fill_level < FILL_FULL \div 4
    /\ dt = 1
    /\ ~ballast.air_valve_open
    /\ ballast.fill_level = 0

\* the vertical velocity after submarine_movement if the step has kept the
\* vertical velocity v it had after the thrust or the drag: the buoyancy of
\* the tick added at or below the surface, an upward velocity zeroed above
\* it
VerticalAfter(v) ==
    IF obs.pre_y <= 0
    THEN v + (BASE_BUOYANCY_FORCE
                - QuotT(obs.fill_read * BALLAST_BUOYANCY_FORCE, FILL_FULL)) * dt
    ELSE Min(v, 0)

\* C30 as stated (Spec): with a thrust intent, submarine_movement sets the
\* horizontal velocity to intent * speed along the facing direction and
\* keeps the vertical velocity of the earlier ticks; without one, the
\* vertical velocity is multiplied by 0.9.
C30_ThrustKeepsVertical ==
    (pc = "ballast_control_system" /\ sub.exists) =>
        IF move_direction(keys) # 0
        THEN /\ <<sub.vx, sub.vz>> =
                    LET v == RotateY(sub.yaw,
                                     <<0, 0, -(move_direction(keys) * SUB_SPEED)>>)
                    IN  <<v[1], v[3]>>
             /\ sub.vy = VerticalAfter(obs.pre_vy)
        ELSE sub.vy = VerticalAfter(QuotT(obs.pre_vy * 9, 10))

---------------------------------------------------------------------------
(* Buoyancy in submarine_movement.                                         *)

\* the vertical velocity submarine_movement had after the thrust or the
\* drag, before its buoyancy block
VerticalBeforeBuoyancy ==
    IF move_direction(keys) # 0 THEN 0 ELSE QuotT(obs.pre_vy * 9, 10)

\* what submarine_movement added to it
BuoyancyChange == sub.vy - VerticalBeforeBuoyancy

\* C31 (Spec): with the vehicle at y <= 0, submarine_movement changes the
\* vertical velocity by (BASE_BUOYANCY_FORCE - fill_level *
\* BALLAST_BUOYANCY_FORCE) * delta_time, which is upward for a fill level
\* under 1/3, zero at 1/3 and downward over 1/3; with y > 0 it adds no
\* buoyancy (the velocity only loses an upward part to the surface clamp).
C31_BuoyancyChange ==
    (pc = "ballast_control_system" /\ sub.exists) =>
        IF obs.pre_y <= 0
        THEN /\ BuoyancyChange * FILL_FULL =
                    (BASE_BUOYANCY_FORCE * FILL_FULL
                        - obs.fill_read * BALLAST_BUOYANCY_FORCE) * dt
             /\ (3 * obs.fill_read < FILL_FULL /\ dt > 0) => BuoyancyChange > 0
             /\ 3 * obs.fill_read = FILL_FULL => BuoyancyChange = 0
             /\ (3 * obs.fill_read > FILL_FULL /\ dt > 0) => BuoyancyChange < 0
        ELSE sub.vy = Min(VerticalBeforeBuoyancy, 0)

\* a step that found the vehicle below the surface with more than a third
\* of the tank flooded, and pushed it down
C31_Witness ==
    /\ pc = "ballast_control_system"
    /\ sub.exists
    /\ obs.pre_y < 0
    /\ 3 * obs.fill_read > FILL_FULL
    /\ dt > 0
    /\ BuoyancyChange < 0

---------------------------------------------------------------------------
(* The two vertical bounds of fish_movement (SpecFish; obs.fish_read holds *)
(* the fish as the tick found them).                                       *)

\* fish i as the tick had moved it when it came to the surface test
Swum(i) ==
    LET f0 == obs.fish_read[i]
    IN  swim(change_direction([f0 EXCEPT !.timer = @ + dt]), dt)

\* the surface clamp of the tick fired for fish i
SurfaceFired(i) ==
    /\ ~obs.fish_read[i].pos_nan
    /\ ~Swum(i).pos_nan
    /\ Swum(i).y > 0

\* the depth clamp of the tick fired for fish i
DepthFired(i) ==
    /\ ~obs.fish_read[i].pos_nan
    /\ ~Swum(i).pos_nan
    /\ keep_in_bounds(surface_bounce(Swum(i)), dt).y < MIN_FISH_Y

\* C32 (SpecFish): after every steering tick each fish's y lies in
\* [-25, 0]; if the surface clamp fired in the tick the vertical component
\* of its direction is <= 0, if the depth clamp fired it is >= 0.
C32_FishBetweenBounds ==
    frame > 0 =>
        \A i \in FishIds :
            fish[i].alive =>
                /\ ~fish[i].pos_nan
                /\ fish[i].y >= MIN_FISH_Y
                /\ fish[i].y <= 0
                /\ SurfaceFired(i) => (~fish[i].dir_nan /\ fish[i].dir[2] <= 0)
                /\ DepthFired(i) => (~fish[i].dir_nan /\ fish[i].dir[2] >= 0)

---------------------------------------------------------------------------
(* The change interval of a fish.                                          *)

\* 5 s, the end of the range "2.0 + rand::random::<f32>() * 3.0" of setup,
\* which lies above that of the resampling
MaxInterval == 20

\* C33 (SpecFish): the change interval of every fish is strictly positive
\* and within one fixed range, at spawn and after every resampling; hence
\* a tick that starts with the timer at 0 (the fish has just been spawned
\* or given a new direction) gives it another new direction only if the
\* tick is at least as long as a positive interval.
C33_IntervalPositive ==
    \A i \in FishIds :
        fish[i].alive =>
            /\ fish[i].interval > 0
            /\ fish[i].interval <= MaxInterval
            /\ (frame > 0 /\ ~obs.fish_read[i].pos_nan
                  /\ obs.fish_read[i].timer = 0 /\ fish[i].timer = 0)
                   => (dt >= obs.fish_read[i].interval
                         /\ obs.fish_read[i].interval > 0)

---------------------------------------------------------------------------
(* Bubbles.                                                                *)

\* C34 (Spec): bubbles are spawned only while air_valve_open is true and
\* only while the vehicle is underwater (y < 0).
C34_BubblesOnlyWhenVenting ==
    [][Len(bubbles'.live) > Len(bubbles.live) =>
          (ballast.air_valve_open /\ sub.exists /\ sub.y < 0)]_vars

\* Bubble specification: bubble_spawner_system and bubble_animation_system
\* in the order of the chain, in ticks of positive length.  What the other
\* systems do to the vents and to the vehicle's height between two runs is
\* an input; after MaxFrames frames the vents stay closed.

\* a frame begins: a tick of 0.25 s or 0.5 s, the vehicle 0.5 m or 5 m
\* under the surface, the vents open or closed
BubbleInput ==
    /\ pc = "input"
    /\ \E d \in {1, 2}, y \in {-64, -640},
          v \in IF frame < MaxFrames THEN BOOLEAN ELSE {FALSE} :
          /\ dt' = d
          /\ sub' = [sub EXCEPT !.y = y]
          /\ ballast' = [ballast EXCEPT !.vents_open = v]
    /\ frame' = IF frame < MaxFrames THEN frame + 1 ELSE frame
    /\ pc' = "bubble_spawner_system"
    /\ UNCHANGED <<camera, fish, detections, elapsed, keys, angle_in,
                   angle_out, obs>>
    /\ UNCHANGED rest

SpawnerOnly ==
    /\ pc = "bubble_spawner_system"
    /\ \E rng \in RngSet :
          bubbles' = bubble_spawner(bubbles, ballast, sub, dt, rng)
    /\ pc' = "bubble_animation_system"
    /\ UNCHANGED <<ballast, sub, camera, fish, detections, elapsed, frame, dt,
                   keys, angle_in, angle_out, obs>>
    /\ UNCHANGED <<game, sweep_angle, sweep_line, blips, ui,
                   camera_transform, light>>

AnimationOnly ==
    /\ pc = "bubble_animation_system"
    /\ bubbles' = bubble_animation(bubbles, dt)
    /\ obs' = observe_despawn(obs, bubbles, bubbles')
    /\ pc' = "input"
    /\ UNCHANGED <<ballast, sub, camera, fish, detections, elapsed, frame, dt,
                   keys, angle_in, angle_out>>
    /\ UNCHANGED <<game, sweep_angle, sweep_line, blips, ui,
                   camera_transform, light>>

NextBubble ==
    \/ BubbleInput
    \/ SpawnerOnly
    \/ AnimationOnly

\* every frame runs: the schedule runs each system of the chain once per
\* frame
SpecBubble == Init /\ [][NextBubble]_vars /\ WF_vars(NextBubble)

\* C35 (SpecBubble): under ticks of positive length the bubbles that have
\* been spawned are all despawned in the end; after bubble_animation_system
\* no bubble is at y >= 0; and bubble_animation_system queues at most one
\* despawn for a bubble.
C35_BubblesDespawned ==
    /\ (bubbles.live # <<>>) ~> (bubbles.live = <<>>)
    /\ [](pc = "input" =>
            \A k \in 1 .. Len(bubbles.live) : bubbles.live[k].y < 0)
    /\ [](pc = "bubble_animation_system" =>
            \A k \in 1 .. Len(bubbles.live) :
                /\ despawn_commands(bubble_rise(bubbles.live[k], dt)) <= 1
                /\ bubble_kept(bubble_rise(bubbles.live[k], dt))
                     <=> despawn_commands(bubble_rise(bubbles.live[k], dt)) = 0)

\* bubbles were spawned and bubble_animation_system has despawned the
\* last of them
C35_Witness ==
    /\ pc = "input"
    /\ obs.despawned
    /\ bubbles.live = <<>>

---------------------------------------------------------------------------
(* Game specification: oxygen_system and collect_fish in the order of the  *)
(* chain.  Where the other systems have taken the vehicle between two      *)
(* frames is an input: the surface at the origin, 10 m down, at the place  *)
(* of a fish, or 2 m and 1.5 m east of it.  A tick is 1 s, or stands for   *)
(* 2499.5 s of ticks in which nothing else happens (two of them leave      *)
(* 0.02 of the oxygen).                                                    *)

GameInput ==
    /\ pc = "input"
    /\ frame < MaxFrames
    /\ \E d \in {4, 9998} :
          dt' = d
    /\ \/ \E y \in {0, -1280} :
             sub' = [sub EXCEPT !.x = 0, !.y = y, !.z = 0]
       \/ \E i \in FishIds, off \in {0, 192, 256} :
             sub' = [sub EXCEPT !.x = fish[i].x + off, !.y = fish[i].y,
                                !.z = fish[i].z]
    /\ frame' = frame + 1
    /\ pc' = "oxygen_system"
    /\ UNCHANGED <<ballast, camera, fish, detections, elapsed, keys, angle_in,
                   angle_out, obs>>
    /\ UNCHANGED rest

OxygenOnly ==
    /\ pc = "oxygen_system"
    /\ game' = oxygen_system(game, sub, dt)
    /\ pc' = "collect_fish"
    /\ UNCHANGED <<ballast, sub, camera, fish, detections, elapsed, frame, dt,
                   keys, angle_in, angle_out, obs>>
    /\ UNCHANGED <<sweep_angle, sweep_line, blips, ui, bubbles,
                   camera_transform, light>>

CollectOnly ==
    /\ pc = "collect_fish"
    /\ fish' = collect_fish_entities(sub, fish)
    /\ game' = collect_fish_game(game, sub, fish)
    /\ pc' = "input"
    /\ UNCHANGED <<ballast, sub, camera, detections, elapsed, frame, dt, keys,
                   angle_in, angle_out, obs>>
    /\ UNCHANGED <<sweep_angle, sweep_line, blips, ui, bubbles,
                   camera_transform, light>>

NextGame ==
    \/ GameInput
    \/ OxygenOnly
    \/ CollectOnly

SpecGame == Init /\ [][NextGame]_vars

\* C36 (SpecGame): score + 10 * (number of live fish) = 10 * FISH_COUNT in
\* every state; no fish is created; after collect_fish no live fish is
\* closer than FISH_COLLECTION_DISTANCE to the vehicle; the score never
\* decreases.
C36_ScoreCountsFish ==
    /\ [](game.score + FISH_SCORE * Cardinality(LiveFish(fish))
             = FISH_SCORE * NFish)
    /\ []((pc = "input" /\ frame > 0) =>
             \A i \in FishIds : ~collectable(sub, fish[i]))
    /\ [][/\ game'.score >= game.score
          /\ \A i \in FishIds : fish'[i].alive => fish[i].alive]_vars

\* collect_fish has removed a fish and left one that is exactly
\* FISH_COLLECTION_DISTANCE away or farther
C36_Witness ==
    /\ pc = "input"
    /\ game.score = FISH_SCORE
    /\ \E i \in FishIds :
          /\ fish[i].alive
          /\ LengthSquared(RelOf(sub, fish[i]))
                = FISH_COLLECTION_DISTANCE * FISH_COLLECTION_DISTANCE

\* C37 (SpecGame): oxygen and health stay within [0, 100]; health never
\* increases, and it decreases only in a run of oxygen_system that leaves
\* oxygen at 0.
C37_OxygenHealthInRange ==
    /\ [](/\ game.oxygen >= 0
          /\ game.oxygen <= OXYGEN_FULL
          /\ game.health >= 0
          /\ game.health <= HEALTH_FULL)
    /\ [][/\ game'.health <= game.health
          /\ game'.health < game.health =>
                (pc = "oxygen_system" /\ game'.oxygen = 0)]_vars

\* the oxygen has run out and the health has begun to fall, and a fish has
\* been collected since
C37_Witness ==
    /\ pc = "input"
    /\ game.health < HEALTH_FULL
    /\ game.health > 0
    /\ game.oxygen = FISH_OXYGEN

---------------------------------------------------------------------------
(* What sonar_detection_system writes.                                     *)

\* the bearing calculate_fish_angle passes to normalize_angle for fish i
BearingPassed(i) ==
    LET l == RotateY(-sub.yaw, RelOf(sub, fish[i]))
    IN  Atan2(-l[1], -l[3]) + FRAC_PI_2

\* SONAR_RADIUS with the rounding of the sines kept here (a hundredth)
PanelReach == SONAR_RADIUS + SONAR_RADIUS \div 100

\* C38 (SpecFish): every record written by sonar_detection_system has its
\* display position within SONAR_RADIUS of the panel centre (to within the
\* rounding of the sines kept here) and its bearing in [0, 2 pi); the
\* bearing passed to normalize_angle is at least -pi/2.
C38_RecordsOnPanel ==
    pc = "scanned" =>
        /\ \A k \in 1 .. Len(detections) :
              /\ ~detections[k][4]
              /\ (detections[k][1] - SONAR_CENTER_X)
                    * (detections[k][1] - SONAR_CENTER_X)
                  + (detections[k][2] - SONAR_CENTER_Y)
                      * (detections[k][2] - SONAR_CENTER_Y)
                    <= PanelReach * PanelReach
              /\ detections[k][3] >= 0
              /\ detections[k][3] < TWO_PI
        /\ \A i \in FishIds :
              (fish[i].alive /\ ~fish[i].pos_nan /\ ~out_of_range(sub, fish[i]))
                  => BearingPassed(i) >= -FRAC_PI_2

=============================================================================
